---- MODULE Spec2Model ----
(***************************************************************************)
(* Model of the statistical grammar pipeline:                              *)
(*   - grammar/state.py      : GrammarState / PatternStats (personal state) *)
(*   - scripts/build_prior_db.py : the global prior build (batched flush)   *)
(*   - grammar/pattern_key.py: the canonical pattern key codec              *)
(*   - grammar/patterns.py   : the pattern extraction families and the      *)
(*                             anchor selection (build_anchor_set)          *)
(*   - scripts/build_prior_db.py, bootstrap/bootstrap.py : the loaders of   *)
(*                             the anchors file                             *)
(* Each part has its own specification (SpecGS, SpecOrder, SpecPrior,       *)
(* SpecCounts, SpecKey, SpecKeyPair, SpecExtract, SpecAnchors, SpecLoad);   *)
(* the variables of the other parts stay at their idle values.              *)
(***************************************************************************)
EXTENDS Integers, Sequences, FiniteSets, TLC

\* ------------------------------------------------------------------------
\* Bounds of the model
\* ------------------------------------------------------------------------
\* longest pattern list of one sentence
MaxPat == 3
\* most observe_sentence calls on one GrammarState
MaxCalls == 3

\* The cap C3 takes to be configured for the personal state (GrammarState has
\* no such setting); only the statement of C3 as written and the capped mutant
\* use it.
AssumedCap == 1

\* most corpus lines the global prior build reads
MaxLines == 4
\* longest pattern list of one corpus sentence in the global prior build
PriorMaxPat == 2
\* largest --commit-every
MaxCommitEvery == 2
\* largest --cap-realizations-per-pattern
MaxCap == 2

\* most parameters of one pattern key
MaxParams == 2
\* most anchors of one pattern key
MaxAnchors == 1
\* longest anchor list when two make_key calls are compared
MaxPairAnchors == 2
\* longest sentence the family helpers of patterns.py are called with
MaxTokens == 5
\* largest max_gap and max_jump the family helpers are called with
MaxGapArg == 3
MaxJumpArg == 3
\* largest gap _bucket_gap is called with
MaxBucketArg == 12
\* longest sentence extract_patterns_from_tokens is called with
MaxExtractTokens == 3
\* longest anchor-free sentence extracted under every toggle combination
MaxAnchorFreeTokens == 1
\* most sentences of the corpus build_anchor_set is called with, and largest top_k
MaxSentences == 3
MaxTopK == 2
\* most entries of the list in an anchors file
MaxAnchorEntries == 2
\* most sentences of a collection aggregated in several orders
MaxBatch == 3

\* Program constants
DefaultMinCountSeen == 3
DefaultMinDistinctSentenceCount == 2

\* Pattern keys are opaque strings for the two statistics stores.
Keys == {"k1", "k2"}
\* Realizations; "" is the empty realization (falsy in Python).
Realizations == {"", "r1", "r2"}
\* The (key, realization) pairs a sentence's pattern list is drawn from.
PatternAlphabet ==
  { [key |-> "k1", realization |-> "r1"],
    [key |-> "k1", realization |-> "r2"],
    [key |-> "k2", realization |-> ""] }

RECURSIVE SeqsUpTo(_, _)
SeqsUpTo(S, n) ==
  IF n = 0 THEN { <<>> }
  ELSE LET shorter == SeqsUpTo(S, n - 1)
       IN shorter \cup { Append(s, x) : s \in { t \in shorter : Len(t) = n - 1 }, x \in S }

PatternLists == SeqsUpTo(PatternAlphabet, MaxPat)

\* thresholds a GrammarState can be constructed with (any int is accepted)
MinCountSeenValues == 0 .. DefaultMinCountSeen
MinDistinctValues == 0 .. DefaultMinDistinctSentenceCount

\* pattern lists extract_patterns_from_tokens returns for a corpus sentence
PriorPatternLists == SeqsUpTo(PatternAlphabet, PriorMaxPat)
\* --commit-every, --cap-realizations-per-pattern, --max-lines (0 = no limit)
CommitEveryValues == 0 .. MaxCommitEvery
CapValues == 0 .. MaxCap
MaxLinesValues == {0, 2}

VARIABLES
  \* ---- global prior build (scripts/build_prior_db.py)
  pc,                            \* position of main()
  commit_every,
  cap_realizations_per_pattern,
  max_lines,
  total_lines,
  kept_lines,
  count_occ_batch,               \* Counter: key -> occurrences in the batch (0 = no entry)
  count_sent_batch,              \* Counter: key -> sentences in the batch (0 = no entry)
  realizations_cache,            \* key -> [st: "absent" | "set" | "none", box]
  realization_count,             \* key -> int (0 = no entry)
  db,                            \* the store as the open connection sees it
  committed,                     \* the store as last committed (what survives a crash)
  stop,                          \* why the read loop ended: "", "eof", "max_lines", "error", "crash"
  pr_occ,                        \* history: occurrences per key over all processed sentences
  pr_sent,                       \* history: processed sentences containing the key
  pr_real,                       \* history: non-empty realizations observed per key
  pr_commit,                     \* history: [occ, sent] as they were at the last commit
  batch_sentences,               \* history: sentences whose observations are in the batch
  \* ---- pattern key codec (grammar/pattern_key.py)
  key_in,                        \* [family, anchors, params]: the arguments of make_key;
                                 \* params is the mapping as a list of (name, value)
                                 \* items in insertion order
  key_reordered,                 \* the same items inserted in another order
  key_out,                       \* what make_key returned for key_in, or NotCalled
  key_out_reordered,             \* what make_key returned for the reordered mapping
  key_other,                     \* the arguments of a second, independent make_key call
  key_out_other,                 \* what make_key returned for key_other
  key_family,                    \* what family_from_key returned for key_out.key
  \* ---- pattern extraction (grammar/patterns.py)
  ex_call,                       \* the call: [fn, tokens, anchors, flags, max_gap, max_jump, g]
  extracted,                     \* the list of Pattern the call returned
  ex_sig,                        \* the str the call returned (skeleton, bucket label)
  ex_returned,                   \* the call has returned
  \* ---- anchor selection (grammar/patterns.py, build_anchor_set)
  ab_call,                       \* the call: [corpus_tokens, top_k, method, max_token_len, allowed]
  ab_pc,                         \* "idle", "called", "scanning", "returned", "raised"
  ab_scanned,                    \* number of sentences of corpus_tokens read so far
  ab_counter,                    \* the Counter: (token, count) items in insertion order
  ab_result,                     \* the set returned, or NoAnchorSet
  \* ---- anchors file loaders (scripts/build_prior_db.py, bootstrap/bootstrap.py)
  ld_call,                       \* the call: [loader, file]; file is what the path holds
  ld_result,                     \* [status, anchors]: "pending", "returned" with the
                                 \* set, or the name of the exception raised
  \* ---- one collection of sentences aggregated twice (grammar/state.py)
  od_batch,                      \* the collection: a list of per-sentence pattern lists
  od_workers,                    \* the patterns dicts of two more GrammarState objects,
                                 \* each observing a share of the collection
  od_done,                       \* the sentences of od_batch (by index) a worker has observed
  \* ---- GrammarState (grammar/state.py)
  patterns,                      \* dict key -> PatternStats (only keys with an entry)
  min_count_seen,
  min_distinct_sentence_count,
  gs_calls,                      \* number of observe_sentence calls made
  gs_occ,                        \* history: occurrences of each key over all calls
  gs_sent,                       \* history: calls whose pattern list contained the key
  gs_real,                       \* history: non-empty realizations observed per key
  gs_query                       \* what the last call returned: [key, result] of an
                                 \* is_emerged call, NoQuery after observe_sentence

gsVars == << patterns, min_count_seen, min_distinct_sentence_count,
             gs_calls, gs_occ, gs_sent, gs_real, gs_query >>

priorVars == << pc, commit_every, cap_realizations_per_pattern, max_lines, total_lines,
                kept_lines, count_occ_batch, count_sent_batch, realizations_cache,
                realization_count, db, committed, stop, pr_occ, pr_sent, pr_real,
                pr_commit, batch_sentences >>

keyVars == << key_in, key_reordered, key_out, key_out_reordered,
              key_other, key_out_other, key_family >>

extractVars == << ex_call, extracted, ex_sig, ex_returned >>

anchorVars == << ab_call, ab_pc, ab_scanned, ab_counter, ab_result >>

loadVars == << ld_call, ld_result >>

orderVars == << od_batch, od_workers, od_done >>

vars == << orderVars, loadVars, anchorVars, gsVars, priorVars, keyVars, extractVars >>

\* the variables each part leaves alone
notGS == << priorVars, keyVars, extractVars, anchorVars, loadVars, orderVars >>
notPrior == << gsVars, keyVars, extractVars, anchorVars, loadVars, orderVars >>
notKey == << gsVars, priorVars, extractVars, anchorVars, loadVars, orderVars >>
notExtract == << gsVars, priorVars, keyVars, anchorVars, loadVars, orderVars >>
notAnchors == << gsVars, priorVars, keyVars, extractVars, loadVars, orderVars >>
notLoad == << gsVars, priorVars, keyVars, extractVars, anchorVars, orderVars >>
notOrder == << priorVars, keyVars, extractVars, anchorVars, loadVars >>

\* ------------------------------------------------------------------------
\* grammar/state.py
\* ------------------------------------------------------------------------
\* PatternStats() as created by the defaultdict
NewPatternStats ==
  [count_seen |-> 0, distinct_sentence_count |-> 0, realizations |-> {}]

\* self.patterns[key] on a defaultdict: creates the entry when missing
PatternsGetOrCreate(p, key) ==
  IF key \in DOMAIN p THEN p
  ELSE [k \in DOMAIN p \cup {key} |-> IF k = key THEN NewPatternStats ELSE p[k]]

\* Mutant: a capped sample (a realization is added only while the sample is
\* smaller than AssumedCap), which state.py does not implement.
Mut_observe_occurrence_capped(st, realization) ==
  [st EXCEPT !.count_seen = @ + 1,
             !.realizations = IF realization # "" /\ Cardinality(@) < AssumedCap
                              THEN @ \cup {realization} ELSE @]

\* Mutant: the realization is assigned instead of added (the set holds the
\* most recent one only).
Mut_observe_occurrence_last_only(st, realization) ==
  [st EXCEPT !.count_seen = @ + 1,
             !.realizations = IF realization # "" THEN {realization} ELSE @]

\* PatternStats.observe_occurrence
PatternStats_observe_occurrence(st, realization) ==
  [st EXCEPT !.count_seen = @ + 1,
             !.realizations = IF realization # "" THEN @ \cup {realization} ELSE @]

\* PatternStats.observe_sentence
PatternStats_observe_sentence(st) ==
  [st EXCEPT !.distinct_sentence_count = @ + 1]

\* Mutant: the distinct-sentence requirement is dropped.
Mut_emerged_count_only(st, minCount, minDistinct) ==
  st.count_seen >= minCount

\* PatternStats.emerged
PatternStats_emerged(st, minCount, minDistinct) ==
  /\ st.count_seen >= minCount
  /\ st.distinct_sentence_count >= minDistinct

\* first loop of GrammarState.observe_sentence, from index i on
RECURSIVE ObserveOccurrences(_, _, _)
ObserveOccurrences(p, pats, i) ==
  IF i > Len(pats) THEN p
  ELSE LET key == pats[i].key
           q == PatternsGetOrCreate(p, key)
       IN ObserveOccurrences(
            [q EXCEPT ![key] = PatternStats_observe_occurrence(@, pats[i].realization)],
            pats, i + 1)

\* seen_in_sentence after the first loop
SeenInSentence(pats) == { pats[i].key : i \in DOMAIN pats }

\* Mutant: the sentence count is incremented per occurrence (no seen_in_sentence
\* set), so a key repeated inside one sentence counts several sentences.
Mut_observe_sentence_per_occurrence(p, pats) ==
  LET q == ObserveOccurrences(p, pats, 1)
  IN [k \in DOMAIN q |->
        [q[k] EXCEPT !.distinct_sentence_count =
           @ + Cardinality({ i \in DOMAIN pats : pats[i].key = k })]]

\* Mutant: the dict is re-created at every call, so that the state holds the
\* last sentence only.
Mut_observe_sentence_forgets(p, pats) ==
  LET q == ObserveOccurrences(<< >>, pats, 1)
  IN [k \in DOMAIN q |->
        IF k \in SeenInSentence(pats) THEN PatternStats_observe_sentence(q[k]) ELSE q[k]]

\* Mutant: the second loop runs over every entry of the dict instead of
\* seen_in_sentence.
Mut_observe_sentence_all_entries(p, pats) ==
  LET q == ObserveOccurrences(p, pats, 1)
  IN [k \in DOMAIN q |-> PatternStats_observe_sentence(q[k])]

\* GrammarState.observe_sentence: both loops
GrammarState_observe_sentence(p, pats) ==
  LET q == ObserveOccurrences(p, pats, 1)
  IN [k \in DOMAIN q |->
        IF k \in SeenInSentence(pats) THEN PatternStats_observe_sentence(q[k]) ELSE q[k]]

\* GrammarState.is_emerged
GrammarState_is_emerged(p, key, minCount, minDistinct) ==
  IF key \notin DOMAIN p THEN FALSE
  ELSE PatternStats_emerged(p[key], minCount, minDistinct)

NoQuery == [key |-> "", result |-> FALSE]

\* ------------------------------------------------------------------------
\* scripts/build_prior_db.py and store/prior_db.py
\* ------------------------------------------------------------------------
\* p_global is kept as the exact fraction num/den (0.0 is 0/1)
PZero == [num |-> 0, den |-> 1]

\* a key without row in pattern_global_stats
NoRow ==
  [present |-> FALSE, count_sentences |-> 0, count_occurrences |-> 0,
   distinct_realization_count |-> 0, p_global |-> PZero]

\* meta values main() writes while aggregating (-1: not written yet)
NoMeta == [sentences_processed |-> -1, lines_seen |-> -1, total_df_sum |-> -1]

\* the store after init_prior_db on a new file: empty tables
\* (stats: pattern_global_stats, rows: pattern_global_realizations)
EmptyStore == [stats |-> [k \in Keys |-> NoRow], rows |-> {}, meta |-> NoMeta]

\* meta_put
meta_put(store, field, value) ==
  [store EXCEPT !.meta = [f \in DOMAIN @ |-> IF f = field THEN value ELSE @[f]]]

\* ensure_row: INSERT OR IGNORE of a zero row
ensure_row(stats, pkey) ==
  IF stats[pkey].present THEN stats
  ELSE [stats EXCEPT ![pkey] = [NoRow EXCEPT !.present = TRUE]]

AbsentBox == [st |-> "absent", box |-> {}]
FullBox == [st |-> "none", box |-> {}]

\* Mutant: the row is inserted but realization_count is not updated.
Mut_maybe_add_realization_uncounted(m, cap, pkey, realization) ==
  IF cap <= 0 THEN m
  ELSE IF m.cache[pkey].st = "none" THEN m
  ELSE LET box == m.cache[pkey].box
           m1 == [m EXCEPT !.cache = [@ EXCEPT ![pkey] = [st |-> "set", box |-> box]]]
       IN IF Cardinality(box) >= cap
            THEN [m1 EXCEPT !.cache = [@ EXCEPT ![pkey] = FullBox]]
          ELSE IF realization \in box THEN m1
          ELSE LET box2 == box \cup {realization}
                   n == Cardinality(box2)
               IN [m1 EXCEPT
                     !.rows = @ \cup {<<pkey, realization>>},
                     !.cache = [@ EXCEPT ![pkey] =
                                  IF n >= cap THEN FullBox ELSE [st |-> "set", box |-> box2]]]

\* Mutant: the cap is not enforced (every new realization is stored).
Mut_maybe_add_realization_uncapped(m, cap, pkey, realization) ==
  IF cap <= 0 THEN m
  ELSE [m EXCEPT !.rows = @ \cup {<<pkey, realization>>},
                 !.cache = [@ EXCEPT ![pkey] = [st |-> "set", box |-> @.box \cup {realization}]],
                 !.count = [@ EXCEPT ![pkey] = Cardinality(m.cache[pkey].box \cup {realization})]]

\* maybe_add_realization; m = [cache, count, rows] are realizations_cache,
\* realization_count and the rows of pattern_global_realizations
maybe_add_realization(m, cap, pkey, realization) ==
  IF cap <= 0 THEN m
  ELSE IF m.cache[pkey].st = "none" THEN m
  ELSE LET box == m.cache[pkey].box
           m1 == [m EXCEPT !.cache = [@ EXCEPT ![pkey] = [st |-> "set", box |-> box]]]
       IN IF Cardinality(box) >= cap
            THEN [m1 EXCEPT !.cache = [@ EXCEPT ![pkey] = FullBox]]
          ELSE IF realization \in box THEN m1
          ELSE LET box2 == box \cup {realization}
                   n == Cardinality(box2)
               IN [m1 EXCEPT
                     !.rows = @ \cup {<<pkey, realization>>},
                     !.count = [@ EXCEPT ![pkey] = IF cap < n THEN cap ELSE n],
                     !.cache = [@ EXCEPT ![pkey] =
                                  IF n >= cap THEN FullBox ELSE [st |-> "set", box |-> box2]]]

\* the "for p in pats" loop of main(), from index i on; a = [occ, cache, count, rows]
RECURSIVE CountPatterns(_, _, _, _)
CountPatterns(a, cap, pats, i) ==
  IF i > Len(pats) THEN a
  ELSE LET pkey == pats[i].key
           a1 == [a EXCEPT !.occ = [@ EXCEPT ![pkey] = @ + 1]]
           m == maybe_add_realization([cache |-> a1.cache, count |-> a1.count, rows |-> a1.rows],
                                      cap, pkey, pats[i].realization)
           a2 == IF pats[i].realization # ""
                   THEN [a1 EXCEPT !.cache = m.cache, !.count = m.count, !.rows = m.rows]
                   ELSE a1
       IN CountPatterns(a2, cap, pats, i + 1)

\* the "for pkey in sentence_keys" loop of main()
CountSentenceKeys(sent, pats) ==
  [k \in Keys |-> IF k \in SeenInSentence(pats) THEN sent[k] + 1 ELSE sent[k]]

\* Mutant: the UPDATE overwrites the counts instead of adding the batch to them.
Mut_update_stats_row_overwrite(row, occ, sent, div) ==
  [row EXCEPT !.count_occurrences = occ,
              !.count_sentences = sent,
              !.distinct_realization_count = IF @ < div THEN div ELSE @]

\* the UPDATE pattern_global_stats statement of flush_counts
update_stats_row(row, occ, sent, div) ==
  [row EXCEPT !.count_occurrences = @ + occ,
              !.count_sentences = @ + sent,
              !.distinct_realization_count = IF @ < div THEN div ELSE @]

BatchKeys(occ, sent) == { k \in Keys : occ[k] > 0 \/ sent[k] > 0 }

\* Mutant: flush_counts does nothing.
Mut_flush_counts_skip(stats, occ, sent, count) == stats

\* flush_counts: the stats table after the flush (the batch counters are
\* cleared by the action that calls it, unless the batch was empty)
flush_counts(stats, occ, sent, count) ==
  IF BatchKeys(occ, sent) = {} THEN stats
  ELSE [k \in Keys |->
          IF k \in BatchKeys(occ, sent)
            THEN update_stats_row(ensure_row(stats, k)[k], occ[k], sent[k], count[k])
            ELSE stats[k]]

RECURSIVE SumOver(_, _)
SumOver(f, S) ==
  IF S = {} THEN 0
  ELSE LET x == CHOOSE y \in S : TRUE IN f[x] + SumOver(f, S \ {x})

\* SELECT SUM(count_sentences) FROM pattern_global_stats
total_df_sum(stats) ==
  SumOver([k \in Keys |-> stats[k].count_sentences], { k \in Keys : stats[k].present })

\* Mutant: p_global is normalised by the occurrence total.
Mut_compute_p_global_by_occurrences(stats) ==
  LET s == SumOver([k \in Keys |-> stats[k].count_occurrences],
                   { k \in Keys : stats[k].present })
  IN [k \in Keys |->
        IF ~ stats[k].present THEN stats[k]
        ELSE IF s > 0
          THEN [stats[k] EXCEPT !.p_global = [num |-> stats[k].count_sentences, den |-> s]]
          ELSE [stats[k] EXCEPT !.p_global = PZero]]

\* the two UPDATE ... SET p_global statements at the end of main()
compute_p_global(stats) ==
  LET s == total_df_sum(stats)
  IN [k \in Keys |->
        IF ~ stats[k].present THEN stats[k]
        ELSE IF s > 0
          THEN [stats[k] EXCEPT !.p_global = [num |-> stats[k].count_sentences, den |-> s]]
          ELSE [stats[k] EXCEPT !.p_global = PZero]]

\* the final flush_counts() call after the read loop
final_flush_counts(stats, occ, sent, count) == flush_counts(stats, occ, sent, count)

\* Mutant: conn.commit() is lost (the durable store keeps its old content).
Mut_commit_lost(durable, working) == durable

\* conn.commit(): the connection's view becomes the durable store
commit(durable, working) == working

\* the process ends without commit: the open transaction is rolled back
rollback(durable, working) == durable

ZeroCounts == [k \in Keys |-> 0]

\* main() up to the read loop: the arguments are parsed, the store is created
\* and the configuration committed; counters are empty
InitPrior ==
  /\ pc = "read"
  /\ commit_every \in CommitEveryValues
  /\ cap_realizations_per_pattern \in CapValues
  /\ max_lines \in MaxLinesValues
  /\ total_lines = 0
  /\ kept_lines = 0
  /\ count_occ_batch = ZeroCounts
  /\ count_sent_batch = ZeroCounts
  /\ realizations_cache = [k \in Keys |-> AbsentBox]
  /\ realization_count = ZeroCounts
  /\ db = EmptyStore
  /\ committed = EmptyStore
  /\ stop = ""
  /\ pr_occ = ZeroCounts
  /\ pr_sent = ZeroCounts
  /\ pr_real = [k \in Keys |-> {}]
  /\ pr_commit = [occ |-> ZeroCounts, sent |-> ZeroCounts]
  /\ batch_sentences = 0

\* the build when another part of the pipeline is under study
IdlePrior ==
  /\ pc = "idle"
  /\ commit_every = 1
  /\ cap_realizations_per_pattern = 0
  /\ max_lines = 0
  /\ total_lines = 0
  /\ kept_lines = 0
  /\ count_occ_batch = ZeroCounts
  /\ count_sent_batch = ZeroCounts
  /\ realizations_cache = [k \in Keys |-> AbsentBox]
  /\ realization_count = ZeroCounts
  /\ db = EmptyStore
  /\ committed = EmptyStore
  /\ stop = ""
  /\ pr_occ = ZeroCounts
  /\ pr_sent = ZeroCounts
  /\ pr_real = [k \in Keys |-> {}]
  /\ pr_commit = [occ |-> ZeroCounts, sent |-> ZeroCounts]
  /\ batch_sentences = 0

\* ------------------------------------------------------------------------
\* grammar/pattern_key.py
\* ------------------------------------------------------------------------
\* A Python str is a sequence of one-character strings.
Str(c) == << c >>
EmptyStr == << >>

\* Unicode code point of the characters used (Python compares str by code point)
CodePoint(c) ==
  CASE c = " " -> 32
    [] c = "," -> 44
    [] c = "1" -> 49
    [] c = "2" -> 50
    [] c = "=" -> 61
    [] c = "A" -> 65
    [] c = "X" -> 88
    [] c = "\\" -> 92
    [] c = "a" -> 97
    [] c = "b" -> 98
    [] c = "f" -> 102
    [] c = "g" -> 103
    [] c = "i" -> 105
    [] c = "k" -> 107
    [] c = "l" -> 108
    [] c = "n" -> 110
    [] c = "p" -> 112
    [] c = "r" -> 114
    [] c = "s" -> 115
    [] c = "|" -> 124

\* Python's str < str
RECURSIVE StrLess(_, _)
StrLess(x, y) ==
  IF y = << >> THEN FALSE
  ELSE IF x = << >> THEN TRUE
  ELSE IF CodePoint(Head(x)) # CodePoint(Head(y))
    THEN CodePoint(Head(x)) < CodePoint(Head(y))
  ELSE StrLess(Tail(x), Tail(y))

\* str.replace(raw, repl) for a one-character raw
RECURSIVE StrReplace(_, _, _)
StrReplace(text, raw, repl) ==
  IF text = << >> THEN << >>
  ELSE (IF Head(text) = raw THEN repl ELSE << Head(text) >>)
         \o StrReplace(Tail(text), raw, repl)

\* _escape_component: the replacements of _ESCAPE_TABLE in its order
escape_component(text) ==
  LET o1 == StrReplace(text, "\\", << "\\", "\\" >>)
      o2 == StrReplace(o1, "|", << "\\", "|" >>)
      o3 == StrReplace(o2, ",", << "\\", "," >>)
      o4 == StrReplace(o3, "=", << "\\", "=" >>)
  IN o4

\* str.strip() (the only whitespace character used is the space)
RECURSIVE LStrip(_)
LStrip(x) == IF x # << >> /\ Head(x) = " " THEN LStrip(Tail(x)) ELSE x
RECURSIVE RStrip(_)
RStrip(x) ==
  IF x # << >> /\ x[Len(x)] = " " THEN RStrip(SubSeq(x, 1, Len(x) - 1)) ELSE x
Strip(x) == RStrip(LStrip(x))

\* list.sort(key=lambda kv: kv[0]) is stable: an item goes after the items
\* whose name is not greater than its own
RECURSIVE InsertByName(_, _)
InsertByName(sorted, item) ==
  IF sorted = << >> THEN << item >>
  ELSE IF StrLess(item.name, Head(sorted).name) THEN << item >> \o sorted
  ELSE << Head(sorted) >> \o InsertByName(Tail(sorted), item)

RECURSIVE SortByName(_, _)
SortByName(items, i) ==
  IF i = 0 THEN << >>
  ELSE InsertByName(SortByName(items, i - 1), items[i])

\* _normalize_params: ok = FALSE stands for the ValueError
normalize_params(params) ==
  IF params = << >> THEN [ok |-> TRUE, items |-> << >>]
  ELSE IF \E i \in DOMAIN params : Strip(params[i].name) = EmptyStr
    THEN [ok |-> FALSE, items |-> << >>]
  ELSE [ok |-> TRUE,
        items |-> SortByName([i \in DOMAIN params |->
                                [name |-> Strip(params[i].name), value |-> params[i].value]],
                             Len(params))]

\* sep.join(parts)
RECURSIVE Join(_, _)
Join(parts, sep) ==
  IF parts = << >> THEN << >>
  ELSE IF Len(parts) = 1 THEN parts[1]
  ELSE parts[1] \o sep \o Join(Tail(parts), sep)

KeyError == [ok |-> FALSE, key |-> << >>]

\* Mutant: to_string without the family check.
Mut_to_string_unvalidated(family, anchors, items) ==
  LET anchors_csv == Join([i \in DOMAIN anchors |-> escape_component(anchors[i])],
                          Str(","))
      params_csv == Join([i \in DOMAIN items |->
                            escape_component(items[i].name) \o Str("=")
                              \o escape_component(items[i].value)],
                         Str(","))
  IN [ok |-> TRUE,
      key |-> family \o << "|", "a", "=" >> \o anchors_csv
                \o << "|", "p", "=" >> \o params_csv]

\* PatternKey.to_string
PatternKey_to_string(family, anchors, items) ==
  IF \E i \in DOMAIN family : family[i] = "|" THEN KeyError
  ELSE LET anchors_csv == Join([i \in DOMAIN anchors |-> escape_component(anchors[i])],
                               Str(","))
           params_csv == Join([i \in DOMAIN items |->
                                 escape_component(items[i].name) \o Str("=")
                                   \o escape_component(items[i].value)],
                              Str(","))
       IN [ok |-> TRUE,
           key |-> family \o << "|", "a", "=" >> \o anchors_csv
                     \o << "|", "p", "=" >> \o params_csv]

\* make_key: ok = FALSE stands for the ValueError
make_key(family, anchors, params) ==
  LET n == normalize_params(params)
  IN IF ~ n.ok THEN KeyError
     ELSE PatternKey_to_string(family, anchors, n.items)

\* ---- the arguments make_key is called with
Families == { Str("f"), << "g", "|" >> }
AnchorTokens == { Str("a"), << "b", "," >>, << "|", "\\", "=" >> }
ParamNames == { Str("a"), << " ", "a" >>, Str("b"), Str(" ") }
ParamValues == { Str("1"), << "2", "|" >> }
ParamItems == [name : ParamNames, value : ParamValues]

\* a mapping has each name once
IsMapping(items) ==
  \A i, j \in DOMAIN items : i # j => items[i].name # items[j].name
ParamMappings == { m \in SeqsUpTo(ParamItems, MaxParams) : IsMapping(m) }

KeyInputs ==
  [family : Families, anchors : SeqsUpTo(AnchorTokens, MaxAnchors), params : ParamMappings]

\* the same items in another insertion order
Reorderings(items) ==
  { m \in SeqsUpTo(ParamItems, MaxParams) :
      /\ Len(m) = Len(items)
      /\ { m[i] : i \in DOMAIN m } = { items[i] : i \in DOMAIN items } }

NotCalled == [ok |-> FALSE, key |-> << "-" >>]
NoInput == [family |-> << >>, anchors |-> << >>, params |-> << >>]
NoFamily == << "-" >>

\* Mutant: the key is split at its last '|' instead of its first.
Mut_family_from_key_last_separator(pattern_key) ==
  IF \E i \in DOMAIN pattern_key : pattern_key[i] = "|"
    THEN LET last == CHOOSE i \in DOMAIN pattern_key :
                       /\ pattern_key[i] = "|"
                       /\ \A j \in i + 1 .. Len(pattern_key) : pattern_key[j] # "|"
         IN SubSeq(pattern_key, 1, last - 1)
  ELSE pattern_key

\* family_from_key
family_from_key(pattern_key) ==
  IF pattern_key = << >> THEN << "u", "n", "k", "n", "o", "w", "n" >>
  ELSE IF \E i \in DOMAIN pattern_key : pattern_key[i] = "|"
    THEN LET first == CHOOSE i \in DOMAIN pattern_key :
                        /\ pattern_key[i] = "|"
                        /\ \A j \in 1 .. i - 1 : pattern_key[j] # "|"
         IN SubSeq(pattern_key, 1, first - 1)
  ELSE pattern_key

InitKey ==
  /\ key_in \in KeyInputs
  /\ key_reordered \in Reorderings(key_in.params)
  /\ key_out = NotCalled
  /\ key_out_reordered = NotCalled
  /\ key_other = NoInput
  /\ key_out_other = NotCalled
  /\ key_family = NoFamily

\* the codec when another part of the pipeline is under study
IdleKey ==
  /\ key_in = NoInput
  /\ key_reordered = << >>
  /\ key_out = NotCalled
  /\ key_out_reordered = NotCalled
  /\ key_other = NoInput
  /\ key_out_other = NotCalled
  /\ key_family = NoFamily

\* ------------------------------------------------------------------------
\* grammar/pattern_key.py: family-specific helpers
\* ------------------------------------------------------------------------
DigitChars == << "0", "1", "2", "3", "4", "5", "6", "7", "8", "9" >>

\* str(v) for a non-negative int
RECURSIVE IntToStr(_)
IntToStr(n) ==
  IF n < 10 THEN << DigitChars[n + 1] >>
  ELSE IntToStr(n \div 10) \o << DigitChars[(n % 10) + 1] >>

\* one item of a params dict
Param(name, value) == [name |-> name, value |-> value]

key_skeleton(skeleton_sig, anchors_in_order) ==
  make_key(<< "s", "k", "e", "l" >>, anchors_in_order, << Param(<< "s", "i", "g" >>, skeleton_sig) >>).key

key_compressed_skeleton(skeleton_sig, anchors_in_order) ==
  make_key(<< "c", "s", "k", "e", "l" >>, anchors_in_order, << Param(<< "s", "i", "g" >>, skeleton_sig) >>).key

key_anchor_pair(a1, a2, gap_bucket) ==
  make_key(<< "a", "n", "c", "h", "_", "p", "a", "i", "r" >>, << a1, a2 >>, << Param(<< "g", "a", "p" >>, gap_bucket) >>).key

key_anchor_window(window_sig, anchors_in_order, left_len, right_len) ==
  make_key(<< "a", "n", "c", "h", "_", "w", "i", "n" >>, anchors_in_order,
           << Param(<< "l" >>, IntToStr(left_len)), Param(<< "r" >>, IntToStr(right_len)),
              Param(<< "s", "i", "g" >>, window_sig) >>).key

key_anchor_skip(anchors_in_order, max_jump) ==
  make_key(<< "a", "_", "s", "k", "i", "p" >> \o IntToStr(Len(anchors_in_order)), anchors_in_order,
           << Param(<< "m", "a", "x", "_", "j", "u", "m", "p" >>, IntToStr(max_jump)) >>).key

key_anchor_sequence(anchors_in_order) ==
  make_key(<< "a", "n", "c", "h", "_", "s", "e", "q" >>, anchors_in_order, << >>).key

key_token_ngram(slot_sig, anchors_in_order, n) ==
  make_key(<< "t", "o", "k", "_", "n", "g" >>, anchors_in_order,
           << Param(<< "n" >>, IntToStr(n)), Param(<< "s", "i", "g" >>, slot_sig) >>).key

key_anchor_span(a1, tail, gap_bucket) ==
  make_key(<< "a", "n", "c", "h", "_", "s", "p", "a", "n" >>, << a1, tail >>, << Param(<< "g", "a", "p" >>, gap_bucket) >>).key

key_span_signature(a1, tail, gap_bucket, kA, kX) ==
  make_key(<< "s", "p", "a", "n", "_", "s", "i", "g" >>, << a1, tail >>,
           << Param(<< "g", "a", "p" >>, gap_bucket), Param(<< "k", "A" >>, IntToStr(kA)),
              Param(<< "k", "X" >>, IntToStr(kX)) >>).key

\* ------------------------------------------------------------------------
\* grammar/patterns.py
\* ------------------------------------------------------------------------
\* A token is a str: a sequence of characters.  A Chinese character is written
\* as its pinyin syllable, so that "ba" is the one-character token 把 and
\* << "yin", "wei" >> the two-character token 因为.
Pattern(pattern_key, realization) ==
  [pattern_key |-> pattern_key, realization |-> realization]

Min(a, b) == IF a < b THEN a ELSE b
Max(a, b) == IF a > b THEN a ELSE b

\* tokens[i] and tokens[a:b] with Python's 0-based indices
Tok(tokens, i) == tokens[i + 1]
Slice(tokens, a, b) == SubSeq(tokens, a + 1, Min(b, Len(tokens)))

\* " ".join(parts)
JoinSpace(parts) == Join(parts, Str(" "))

\* [t for t in tokens if t in anchors]
AnchorsInOrder(tokens, anchors) == SelectSeq(tokens, LAMBDA t : t \in anchors)

\* _NUM_RE.fullmatch(t) for \d+(\.\d+)?
Digits == { DigitChars[i] : i \in DOMAIN DigitChars }
AllDigits(t) == t # << >> /\ \A i \in DOMAIN t : t[i] \in Digits
NumFullMatch(t) ==
  \/ AllDigits(t)
  \/ \E d \in DOMAIN t :
       /\ t[d] = "."
       /\ AllDigits(SubSeq(t, 1, d - 1))
       /\ AllDigits(SubSeq(t, d + 1, Len(t)))

SPAN == << "<", "S", "P", "A", "N", ">" >>
END == << "<", "E", "N", "D", ">" >>
XSlot == << "<", "X", ">" >>

\* the placeholder skeletonize writes for one token
skeleton_token(t, anchors) ==
  IF t \in anchors THEN t
  ELSE IF NumFullMatch(t) THEN << "<", "N", "U", "M", ">" >>
  ELSE IF Len(t) = 1 THEN << "<", "C", "1", ">" >>
  ELSE IF Len(t) = 2 THEN << "<", "C", "2", ">" >>
  ELSE << "<", "W", ">" >>

\* skeletonize
skeletonize(tokens, anchors) ==
  JoinSpace([i \in DOMAIN tokens |-> skeleton_token(tokens[i], anchors)])

\* skeletonize_compressed: the loop over the tokens; st = [out, in_span]
RECURSIVE CompressLoop(_, _, _, _)
CompressLoop(tokens, anchors, i, st) ==
  IF i >= Len(tokens) THEN st.out
  ELSE IF Tok(tokens, i) \in anchors
    THEN CompressLoop(tokens, anchors, i + 1,
                      [out |-> Append(st.out, Tok(tokens, i)), in_span |-> FALSE])
  ELSE IF ~ st.in_span
    THEN CompressLoop(tokens, anchors, i + 1,
                      [out |-> Append(st.out, SPAN), in_span |-> TRUE])
  ELSE CompressLoop(tokens, anchors, i + 1, st)

\* while out and out[0] == "<SPAN>": out.pop(0)
RECURSIVE TrimLeading(_)
TrimLeading(out) ==
  IF out # << >> /\ Head(out) = SPAN THEN TrimLeading(Tail(out)) ELSE out

\* while out and out[-1] == "<SPAN>": out.pop()
RECURSIVE TrimTrailing(_)
TrimTrailing(out) ==
  IF out # << >> /\ out[Len(out)] = SPAN
    THEN TrimTrailing(SubSeq(out, 1, Len(out) - 1))
  ELSE out

\* Mutant: the trailing <SPAN> is not trimmed.
Mut_compressed_parts_untrimmed(tokens, anchors) ==
  TrimLeading(CompressLoop(tokens, anchors, 0, [out |-> << >>, in_span |-> FALSE]))

\* skeletonize_compressed: the list that is joined
compressed_parts(tokens, anchors) ==
  TrimTrailing(TrimLeading(
    CompressLoop(tokens, anchors, 0, [out |-> << >>, in_span |-> FALSE])))

skeletonize_compressed(tokens, anchors) == JoinSpace(compressed_parts(tokens, anchors))

\* Mutant: the bucket "2-3" also takes 4.
Mut_bucket_gap_shifted(g) ==
  IF g = 0 THEN << "0" >>
  ELSE IF g = 1 THEN << "1" >>
  ELSE IF g <= 4 THEN << "2", "-", "3" >>
  ELSE IF g <= 7 THEN << "4", "-", "7" >>
  ELSE << "8", "+" >>

\* _bucket_gap
bucket_gap(g) ==
  IF g = 0 THEN << "0" >>
  ELSE IF g = 1 THEN << "1" >>
  ELSE IF g <= 3 THEN << "2", "-", "3" >>
  ELSE IF g <= 7 THEN << "4", "-", "7" >>
  ELSE << "8", "+" >>

\* _anchor_sequence: [(t, i) for i, t in enumerate(tokens) if t in anchors]
RECURSIVE AnchorSeqFrom(_, _, _)
AnchorSeqFrom(tokens, anchors, i) ==
  IF i >= Len(tokens) THEN << >>
  ELSE (IF Tok(tokens, i) \in anchors THEN << [t |-> Tok(tokens, i), i |-> i] >> ELSE << >>)
         \o AnchorSeqFrom(tokens, anchors, i + 1)

anchor_sequence(tokens, anchors) == AnchorSeqFrom(tokens, anchors, 0)

\* The result of a search that found nothing (Python's None)
None == -1

\* Mutant: the skip-gram loops stop one position early.
Mut_jump_exceeds_early(d, max_jump) == d >= max_jump

\* _anchor_skipgrams: "if i2 - i1 > max_jump: break"
jump_exceeds(d, max_jump) == d > max_jump

\* _anchor_skipgrams, 2-anchor skip-grams: the loop over b
RECURSIVE Skip2Inner(_, _, _, _, _)
Skip2Inner(seq, a, b, max_jump, acc) ==
  IF b >= Len(seq) THEN acc
  ELSE LET A1 == Tok(seq, a).t
           i1 == Tok(seq, a).i
           A2 == Tok(seq, b).t
           i2 == Tok(seq, b).i
       IN IF jump_exceeds(i2 - i1, max_jump) THEN acc
          ELSE Skip2Inner(seq, a, b + 1, max_jump,
                          Append(acc, Pattern(key_anchor_skip(<< A1, A2 >>, max_jump),
                                              A1 \o << " ", ".", ".", ".", " " >> \o A2)))

\* the loop over a
RECURSIVE Skip2Outer(_, _, _, _)
Skip2Outer(seq, a, max_jump, acc) ==
  IF a >= Len(seq) THEN acc
  ELSE Skip2Outer(seq, a + 1, max_jump, Skip2Inner(seq, a, a + 1, max_jump, acc))

\* _anchor_skipgrams, 3-anchor skip-grams: the loop over c
RECURSIVE Skip3Inner(_, _, _, _, _, _)
Skip3Inner(seq, a, b, c, max_jump, acc) ==
  IF c >= Len(seq) THEN acc
  ELSE LET A1 == Tok(seq, a).t
           A2 == Tok(seq, b).t
           i2 == Tok(seq, b).i
           A3 == Tok(seq, c).t
           i3 == Tok(seq, c).i
       IN IF jump_exceeds(i3 - i2, max_jump) THEN acc
          ELSE Skip3Inner(seq, a, b, c + 1, max_jump,
                          Append(acc, Pattern(key_anchor_skip(<< A1, A2, A3 >>, max_jump),
                                              A1 \o << " ", ".", ".", ".", " " >> \o A2 \o << " ", ".", ".", ".", " " >> \o A3)))

\* the loop over b
RECURSIVE Skip3Mid(_, _, _, _, _)
Skip3Mid(seq, a, b, max_jump, acc) ==
  IF b >= Len(seq) THEN acc
  ELSE IF jump_exceeds(Tok(seq, b).i - Tok(seq, a).i, max_jump) THEN acc
  ELSE Skip3Mid(seq, a, b + 1, max_jump, Skip3Inner(seq, a, b, b + 1, max_jump, acc))

\* the loop over a
RECURSIVE Skip3Outer(_, _, _, _)
Skip3Outer(seq, a, max_jump, acc) ==
  IF a >= Len(seq) THEN acc
  ELSE Skip3Outer(seq, a + 1, max_jump, Skip3Mid(seq, a, a + 1, max_jump, acc))

\* _anchor_skipgrams
anchor_skipgrams(tokens, anchors, max_jump, add_bigrams, add_trigrams) ==
  LET seq == anchor_sequence(tokens, anchors)
      e2 == IF add_bigrams THEN Skip2Outer(seq, 0, max_jump, << >>) ELSE << >>
      e3 == IF add_trigrams THEN Skip3Outer(seq, 0, max_jump, e2) ELSE e2
  IN e3

\* _anchor_span_patterns: "j_limit = min(n, i + 1 + max_gap)"
span_j_limit(n, i, max_gap) == Min(n, i + 1 + max_gap)

\* "for j in range(i + 1, j_limit): if tokens[j] in anchors: ... break"
RECURSIVE FindTail(_, _, _, _)
FindTail(tokens, anchors, j, j_limit) ==
  IF j >= j_limit THEN None
  ELSE IF Tok(tokens, j) \in anchors THEN j
  ELSE FindTail(tokens, anchors, j + 1, j_limit)

\* _anchor_span_patterns: the body of the loop for an anchor at i
AnchorSpanAt(tokens, anchors, max_gap, i) ==
  LET n == Len(tokens)
      t == Tok(tokens, i)
      j_limit == span_j_limit(n, i, max_gap)
      tail_pos == FindTail(tokens, anchors, i + 1, j_limit)
      tail == IF tail_pos # None THEN Tok(tokens, tail_pos) ELSE END
      gap == IF tail_pos # None THEN tail_pos - i - 1 ELSE Min(max_gap, n - i - 1)
      end == IF tail_pos # None THEN tail_pos + 1 ELSE j_limit
  IN Pattern(key_anchor_span(t, tail, bucket_gap(gap)), JoinSpace(Slice(tokens, i, end)))

RECURSIVE AnchorSpanLoop(_, _, _, _)
AnchorSpanLoop(tokens, anchors, max_gap, i) ==
  IF i >= Len(tokens) THEN << >>
  ELSE (IF Tok(tokens, i) \in anchors
          THEN << AnchorSpanAt(tokens, anchors, max_gap, i) >> ELSE << >>)
         \o AnchorSpanLoop(tokens, anchors, max_gap, i + 1)

\* _anchor_span_patterns
anchor_span_patterns(tokens, anchors, max_gap) == AnchorSpanLoop(tokens, anchors, max_gap, 0)

\* Mutant: the interior runs up to and including the tail anchor.
Mut_SpanSignatureAt_includes_tail(tokens, anchors, max_gap, i) ==
  LET n == Len(tokens)
      t == Tok(tokens, i)
      j_limit == span_j_limit(n, i, max_gap)
      tail_pos == FindTail(tokens, anchors, i + 1, j_limit)
      tail == IF tail_pos # None THEN Tok(tokens, tail_pos) ELSE END
      end == IF tail_pos # None THEN tail_pos + 1 ELSE j_limit
      inside == Slice(tokens, i + 1, end)
      kA == Len(AnchorsInOrder(inside, anchors))
      kX == Len(inside) - kA
      gap == Len(inside)
  IN Pattern(key_span_signature(t, tail, bucket_gap(gap), kA, kX),
             JoinSpace(Slice(tokens, i, IF tail_pos # None THEN tail_pos + 1 ELSE j_limit)))

\* _span_signature_patterns: the body of the loop for an anchor at i
SpanSignatureAt(tokens, anchors, max_gap, i) ==
  LET n == Len(tokens)
      t == Tok(tokens, i)
      j_limit == span_j_limit(n, i, max_gap)
      tail_pos == FindTail(tokens, anchors, i + 1, j_limit)
      tail == IF tail_pos # None THEN Tok(tokens, tail_pos) ELSE END
      end == IF tail_pos # None THEN tail_pos ELSE j_limit
      inside == Slice(tokens, i + 1, end)
      kA == Len(AnchorsInOrder(inside, anchors))
      kX == Len(inside) - kA
      gap == Len(inside)
  IN Pattern(key_span_signature(t, tail, bucket_gap(gap), kA, kX),
             JoinSpace(Slice(tokens, i, IF tail_pos # None THEN tail_pos + 1 ELSE j_limit)))

RECURSIVE SpanSignatureLoop(_, _, _, _)
SpanSignatureLoop(tokens, anchors, max_gap, i) ==
  IF i >= Len(tokens) THEN << >>
  ELSE (IF Tok(tokens, i) \in anchors
          THEN << SpanSignatureAt(tokens, anchors, max_gap, i) >> ELSE << >>)
         \o SpanSignatureLoop(tokens, anchors, max_gap, i + 1)

\* _span_signature_patterns
span_signature_patterns(tokens, anchors, max_gap) ==
  SpanSignatureLoop(tokens, anchors, max_gap, 0)

\* Mutant: the pair loop stops at gap = max_gap already.
Mut_pair_gap_exceeds_early(gap, max_gap) == gap >= max_gap

\* _anchor_pair_patterns: "if gap > max_gap: break"
pair_gap_exceeds(gap, max_gap) == gap > max_gap

\* _anchor_pair_patterns: the loop over b
RECURSIVE PairInner(_, _, _, _, _, _)
PairInner(tokens, seq, a, b, max_gap, acc) ==
  IF b >= Len(seq) THEN acc
  ELSE LET A1 == Tok(seq, a).t
           i1 == Tok(seq, a).i
           A2 == Tok(seq, b).t
           i2 == Tok(seq, b).i
           gap == i2 - i1 - 1
       IN IF pair_gap_exceeds(gap, max_gap) THEN acc
          ELSE PairInner(tokens, seq, a, b + 1, max_gap,
                         Append(acc, Pattern(key_anchor_pair(A1, A2, bucket_gap(gap)),
                                             JoinSpace(Slice(tokens, i1, i2 + 1)))))

\* the loop over a
RECURSIVE PairOuter(_, _, _, _, _)
PairOuter(tokens, seq, a, max_gap, acc) ==
  IF a >= Len(seq) THEN acc
  ELSE PairOuter(tokens, seq, a + 1, max_gap, PairInner(tokens, seq, a, a + 1, max_gap, acc))

\* _anchor_pair_patterns
anchor_pair_patterns(tokens, anchors, max_gap) ==
  PairOuter(tokens, anchor_sequence(tokens, anchors), 0, max_gap, << >>)

\* Mutant: a repeated anchor is counted once.
Mut_anchor_sequence_signature_distinct(tokens, anchors) ==
  LET seq == AnchorsInOrder(tokens, anchors)
  IN IF Cardinality({ seq[i] : i \in DOMAIN seq }) < 2 THEN << >>
     ELSE << Pattern(key_anchor_sequence(seq), JoinSpace(seq)) >>

\* _anchor_sequence_signature
anchor_sequence_signature(tokens, anchors) ==
  LET seq == AnchorsInOrder(tokens, anchors)
  IN IF Len(seq) < 2 THEN << >>
     ELSE << Pattern(key_anchor_sequence(seq), JoinSpace(seq)) >>

\* extract_patterns_from_tokens, 1) token n-grams: "for ng in ngrams(tokens, n)"
RECURSIVE NgramLoop(_, _, _, _, _)
NgramLoop(tokens, anchors, n, i, acc) ==
  IF i >= Len(tokens) - n + 1 THEN acc
  ELSE LET ng == Slice(tokens, i, i + n)
           sig == JoinSpace([k \in DOMAIN ng |-> IF ng[k] \in anchors THEN ng[k] ELSE XSlot])
       IN IF \E k \in DOMAIN ng : ng[k] \in anchors
            THEN NgramLoop(tokens, anchors, n, i + 1,
                           Append(acc, Pattern(key_token_ngram(sig, AnchorsInOrder(ng, anchors), n),
                                               JoinSpace(ng))))
          ELSE NgramLoop(tokens, anchors, n, i + 1, acc)

\* "for n in range(2, max_ngram_n + 1)"
RECURSIVE TokNgramLoop(_, _, _, _, _)
TokNgramLoop(tokens, anchors, n, max_ngram_n, acc) ==
  IF n > max_ngram_n THEN acc
  ELSE TokNgramLoop(tokens, anchors, n + 1, max_ngram_n, NgramLoop(tokens, anchors, n, 0, acc))

\* extract_patterns_from_tokens, 2) anchor window around the anchor at i
AnchorWindowAt(tokens, anchors, i) ==
  LET t == Tok(tokens, i)
      left == Slice(tokens, Max(0, i - 2), i)
      right == Slice(tokens, i + 1, i + 3)
      window == left \o << t >> \o right
      sig_tokens == [k \in DOMAIN window |->
                       IF window[k] \in anchors THEN window[k] ELSE XSlot]
  IN Pattern(key_anchor_window(JoinSpace(sig_tokens), AnchorsInOrder(sig_tokens, anchors),
                               Len(left), Len(right)),
             JoinSpace(window))

RECURSIVE AnchorWindowLoop(_, _, _)
AnchorWindowLoop(tokens, anchors, i) ==
  IF i >= Len(tokens) THEN << >>
  ELSE (IF Tok(tokens, i) \in anchors THEN << AnchorWindowAt(tokens, anchors, i) >> ELSE << >>)
         \o AnchorWindowLoop(tokens, anchors, i + 1)

\* the keyword toggles of extract_patterns_from_tokens; flags is the set of
\* the toggles that are True
FamilyFlags ==
  { "add_tok_ngrams", "add_anchor_windows", "add_skeleton", "add_compressed_skeleton",
    "add_anchor_pairs", "add_anchor_skip2", "add_anchor_skip3", "add_anchor_sequence",
    "add_anchor_spans", "add_span_signatures" }

DefaultFlags ==
  { "add_anchor_windows", "add_skeleton", "add_compressed_skeleton", "add_anchor_pairs" }

DefaultMaxNgramN == 4
DefaultSpanMaxGap == 20
DefaultSkipMaxJump == 10

\* Mutant: anchor windows are emitted for every token.
Mut_extract_windows_everywhere(tokens, anchors, flags, span_max_gap, skip_max_jump) ==
  LET skel == skeletonize(tokens, anchors)
      e5 == IF "add_skeleton" \in flags
              THEN << Pattern(key_skeleton(skel, AnchorsInOrder(tokens, anchors)),
                              JoinSpace(tokens)) >>
            ELSE << >>
      e2 == IF "add_anchor_windows" \in flags
              THEN [i \in DOMAIN tokens |-> AnchorWindowAt(tokens, anchors, i - 1)]
            ELSE << >>
  IN [extracted |-> e2 \o e5, skel |-> skel]

\* Mutant: the anchor-sequence step is an elif of the anchor-pair step.
Mut_extract_sequence_elif(tokens, anchors, flags, span_max_gap, skip_max_jump) ==
  LET skel == skeletonize(tokens, anchors)
      cskel == skeletonize_compressed(tokens, anchors)
      e1 == IF "add_tok_ngrams" \in flags
              THEN TokNgramLoop(tokens, anchors, 2, DefaultMaxNgramN, << >>)
            ELSE << >>
      e2 == IF "add_anchor_windows" \in flags
              THEN AnchorWindowLoop(tokens, anchors, 0)
            ELSE << >>
      e3 == IF "add_anchor_pairs" \in flags
              THEN anchor_pair_patterns(tokens, anchors, span_max_gap)
            ELSE << >>
      e4 == IF "add_anchor_sequence" \in flags /\ "add_anchor_pairs" \notin flags
              THEN anchor_sequence_signature(tokens, anchors)
            ELSE << >>
      e5 == IF "add_skeleton" \in flags
              THEN << Pattern(key_skeleton(skel, AnchorsInOrder(tokens, anchors)),
                              JoinSpace(tokens)) >>
            ELSE << >>
      e6 == IF "add_compressed_skeleton" \in flags /\ cskel # << >>
              THEN << Pattern(key_compressed_skeleton(cskel, AnchorsInOrder(tokens, anchors)),
                              JoinSpace(tokens)) >>
            ELSE << >>
      e7 == IF "add_anchor_spans" \in flags
              THEN anchor_span_patterns(tokens, anchors, span_max_gap)
            ELSE << >>
      e8 == IF "add_span_signatures" \in flags
              THEN span_signature_patterns(tokens, anchors, span_max_gap)
            ELSE << >>
      e9 == IF "add_anchor_skip2" \in flags \/ "add_anchor_skip3" \in flags
              THEN anchor_skipgrams(tokens, anchors, skip_max_jump,
                                    "add_anchor_skip2" \in flags,
                                    "add_anchor_skip3" \in flags)
            ELSE << >>
  IN [extracted |-> e1 \o e2 \o e3 \o e4 \o e5 \o e6 \o e7 \o e8 \o e9, skel |-> skel]

\* extract_patterns_from_tokens: what each numbered step appends to extracted
extract_patterns_from_tokens(tokens, anchors, flags, span_max_gap, skip_max_jump) ==
  LET skel == skeletonize(tokens, anchors)
      cskel == skeletonize_compressed(tokens, anchors)
      e1 == IF "add_tok_ngrams" \in flags
              THEN TokNgramLoop(tokens, anchors, 2, DefaultMaxNgramN, << >>)
            ELSE << >>
      e2 == IF "add_anchor_windows" \in flags
              THEN AnchorWindowLoop(tokens, anchors, 0)
            ELSE << >>
      e3 == IF "add_anchor_pairs" \in flags
              THEN anchor_pair_patterns(tokens, anchors, span_max_gap)
            ELSE << >>
      e4 == IF "add_anchor_sequence" \in flags
              THEN anchor_sequence_signature(tokens, anchors)
            ELSE << >>
      e5 == IF "add_skeleton" \in flags
              THEN << Pattern(key_skeleton(skel, AnchorsInOrder(tokens, anchors)),
                              JoinSpace(tokens)) >>
            ELSE << >>
      e6 == IF "add_compressed_skeleton" \in flags /\ cskel # << >>
              THEN << Pattern(key_compressed_skeleton(cskel, AnchorsInOrder(tokens, anchors)),
                              JoinSpace(tokens)) >>
            ELSE << >>
      e7 == IF "add_anchor_spans" \in flags
              THEN anchor_span_patterns(tokens, anchors, span_max_gap)
            ELSE << >>
      e8 == IF "add_span_signatures" \in flags
              THEN span_signature_patterns(tokens, anchors, span_max_gap)
            ELSE << >>
      e9 == IF "add_anchor_skip2" \in flags \/ "add_anchor_skip3" \in flags
              THEN anchor_skipgrams(tokens, anchors, skip_max_jump,
                                    "add_anchor_skip2" \in flags,
                                    "add_anchor_skip3" \in flags)
            ELSE << >>
  IN [extracted |-> e1 \o e2 \o e3 \o e4 \o e5 \o e6 \o e7 \o e8 \o e9, skel |-> skel]

\* ---- the arguments the functions of patterns.py are called with
Ba == Str("ba")
Le == Str("le")
Wo == Str("wo")
YinWei == << "yin", "wei" >>
TuShuGuan == << "tu", "shu", "guan" >>
Num12 == << "1", "2" >>

\* [我, 把, 它, 扔, 掉, 了]
ExampleSentence == << Wo, Ba, Str("ta"), Str("reng"), Str("diao"), Le >>

HelperTokens == { Ba, Le, Wo }
HelperTokenLists == SeqsUpTo(HelperTokens, MaxTokens) \cup { ExampleSentence }
AnchorSets == SUBSET { Ba, Le }
MaxGapValues == 0 .. MaxGapArg
MaxJumpValues == 1 .. MaxJumpArg

ExtractTokens == { Ba, YinWei, Wo, Num12, TuShuGuan }
ExtractTokenLists == SeqsUpTo(ExtractTokens, MaxExtractTokens) \cup { ExampleSentence }
ExtractAnchorSets == (SUBSET { Ba, YinWei }) \cup { { Ba, Le } }
SelectedFlagSets ==
  { {}, FamilyFlags, DefaultFlags } \cup { { f } : f \in FamilyFlags }
ExtractParams == { << DefaultSpanMaxGap, DefaultSkipMaxJump >> } \cup { << 1, 2 >> }

\* sentences with several anchor occurrences, extracted with every toggle combination
ToggleSentences == { << Ba, Wo, Ba, YinWei >>, << YinWei, Num12, Ba >> }

Call(fn, tokens, anchors, flags, max_gap, max_jump, g) ==
  [fn |-> fn, tokens |-> tokens, anchors |-> anchors, flags |-> flags,
   max_gap |-> max_gap, max_jump |-> max_jump, g |-> g]

NoCall == Call("", << >>, {}, {}, 0, 0, 0)

\* the calls made: each function with each combination of its arguments
InitExtract ==
  /\ \/ \E fn \in { "_anchor_pair_patterns", "_anchor_span_patterns",
                     "_span_signature_patterns" },
            t \in HelperTokenLists, a \in AnchorSets, mg \in MaxGapValues :
          ex_call = Call(fn, t, a, {}, mg, 0, 0)
     \/ \E t \in HelperTokenLists, a \in AnchorSets,
            f \in SUBSET { "add_bigrams", "add_trigrams" }, mj \in MaxJumpValues :
          ex_call = Call("_anchor_skipgrams", t, a, f, 0, mj, 0)
     \/ \E fn \in { "_anchor_sequence_signature", "skeletonize_compressed" },
            t \in HelperTokenLists, a \in AnchorSets :
          ex_call = Call(fn, t, a, {}, 0, 0, 0)
     \/ \E g \in 0 .. MaxBucketArg :
          ex_call = Call("_bucket_gap", << >>, {}, {}, 0, 0, g)
     \* extract_patterns_from_tokens with a selection of toggle combinations
     \/ \E t \in ExtractTokenLists, a \in ExtractAnchorSets,
            f \in SelectedFlagSets, p \in ExtractParams :
          ex_call = Call("extract_patterns_from_tokens", t, a, f, p[1], p[2], 0)
     \* and on sentences without an anchor, with every toggle combination
     \/ \E t \in SeqsUpTo(ExtractTokens \ { Ba }, MaxAnchorFreeTokens),
            a \in { {}, { Ba } }, f \in SUBSET FamilyFlags :
          ex_call = Call("extract_patterns_from_tokens", t, a, f,
                         DefaultSpanMaxGap, DefaultSkipMaxJump, 0)
     \* and on sentences with several anchor occurrences likewise
     \/ \E t \in ToggleSentences, f \in SUBSET FamilyFlags :
          ex_call = Call("extract_patterns_from_tokens", t, { Ba, YinWei }, f, 1, 2, 0)
  /\ extracted = << >>
  /\ ex_sig = << >>
  /\ ex_returned = FALSE

\* the extractor when another part of the pipeline is under study
IdleExtract ==
  /\ ex_call = NoCall
  /\ extracted = << >>
  /\ ex_sig = << >>
  /\ ex_returned = FALSE

\* ------------------------------------------------------------------------
\* grammar/patterns.py: build_anchor_set
\* ------------------------------------------------------------------------
\* allowed: None, or a set of tokens
NoWhitelist == [given |-> FALSE, tokens |-> {}]
Whitelist(tokens) == [given |-> TRUE, tokens |-> tokens]

\* Mutant: the method is not validated (an unknown method is treated as "df").
Mut_method_unchecked(method) == TRUE

\* if method not in {"tf", "df"}: raise ValueError
method_known(method) == method \in { "tf", "df" }

\* def ok(t)
ok(t, max_token_len, allowed) ==
  IF Len(t) > max_token_len THEN FALSE
  ELSE IF allowed.given /\ t \notin allowed.tokens THEN FALSE
  ELSE TRUE

\* Counter: counting one more element (a new element goes last)
CounterAdd(counter, t) ==
  IF \E i \in DOMAIN counter : counter[i].t = t
    THEN [i \in DOMAIN counter |->
            IF counter[i].t = t THEN [t |-> t, n |-> counter[i].n + 1] ELSE counter[i]]
  ELSE Append(counter, [t |-> t, n |-> 1])

\* Counter.update(iterable), the iterable given as the list of what it yields
RECURSIVE CounterUpdate(_, _)
CounterUpdate(counter, elems) ==
  IF elems = << >> THEN counter
  ELSE CounterUpdate(CounterAdd(counter, Head(elems)), Tail(elems))

\* Mutant: the items are sorted by ascending count.
Mut_most_common_ascending(counter, n) ==
  LET rank(i) == Cardinality({ j \in DOMAIN counter :
                     \/ counter[j].n < counter[i].n
                     \/ counter[j].n = counter[i].n /\ j < i })
      sorted == [r \in DOMAIN counter |-> counter[CHOOSE i \in DOMAIN counter : rank(i) = r - 1]]
  IN SubSeq(sorted, 1, Min(Max(n, 0), Len(counter)))

\* Counter.most_common(n): the n items of highest count, equal counts in
\* insertion order (heapq.nlargest is stable; n <= 0 gives no item)
most_common(counter, n) ==
  LET rank(i) == Cardinality({ j \in DOMAIN counter :
                     \/ counter[j].n > counter[i].n
                     \/ counter[j].n = counter[i].n /\ j < i })
      sorted == [r \in DOMAIN counter |-> counter[CHOOSE i \in DOMAIN counter : rank(i) = r - 1]]
  IN SubSeq(sorted, 1, Min(Max(n, 0), Len(counter)))

\* short_unique = {t for t in sent if ok(t)}
short_unique(sent, max_token_len, allowed) ==
  { sent[i] : i \in { j \in DOMAIN sent : ok(sent[j], max_token_len, allowed) } }

\* the orders in which iterating a set of str can yield its elements (the
\* order depends on the interpreter's string hashing)
Orderings(S) ==
  { s \in [1 .. Cardinality(S) -> S] :
      \A i, j \in 1 .. Cardinality(S) : i # j => s[i] # s[j] }

NoAnchorSet == [returned |-> FALSE, anchors |-> {}]
AnchorSet(anchors) == [returned |-> TRUE, anchors |-> anchors]

\* ---- the arguments build_anchor_set is called with
AnchorCorpusSentences ==
  { << >>, << Ba >>, << Le >>, << Ba, Ba, Ba >>, << Le, YinWei >>, << YinWei, Ba, Le >> }
AnchorCorpora == SeqsUpTo(AnchorCorpusSentences, MaxSentences)
Methods == { "tf", "df", "idf" }
MaxTokenLens == { 1, 2 }
Whitelists == { NoWhitelist, Whitelist({}), Whitelist({ Ba, YinWei }) }

InitAnchors ==
  /\ ab_call \in [corpus_tokens : AnchorCorpora, top_k : 0 .. MaxTopK, method : Methods,
                  max_token_len : MaxTokenLens, allowed : Whitelists]
  /\ ab_pc = "called"
  /\ ab_scanned = 0
  /\ ab_counter = << >>
  /\ ab_result = NoAnchorSet

\* anchor selection when another part of the pipeline is under study
IdleAnchors ==
  /\ ab_call = [corpus_tokens |-> << >>, top_k |-> 0, method |-> "",
                max_token_len |-> 0, allowed |-> NoWhitelist]
  /\ ab_pc = "idle"
  /\ ab_scanned = 0
  /\ ab_counter = << >>
  /\ ab_result = NoAnchorSet

\* ------------------------------------------------------------------------
\* scripts/build_prior_db.py load_anchors, bootstrap/bootstrap.py _load_global_anchors
\* ------------------------------------------------------------------------
\* what the path holds: no file, text that is not JSON, or a JSON document:
\* an object (with or without the key "anchors", whose value is a list or
\* not), an array, or a scalar; entries are the strings of the list
File(kind, has_anchors, is_list, entries) ==
  [kind |-> kind, has_anchors |-> has_anchors, is_list |-> is_list, entries |-> entries]

MissingFile == File("missing", FALSE, FALSE, << >>)
MalformedFile == File("malformed", FALSE, FALSE, << >>)
ScalarFile == File("scalar", FALSE, FALSE, << >>)
ObjectWithoutAnchors == File("object", FALSE, FALSE, << >>)
ObjectWithNonListAnchors == File("object", TRUE, FALSE, << >>)
ObjectFile(entries) == File("object", TRUE, TRUE, entries)
ArrayFile(entries) == File("array", FALSE, TRUE, entries)

Raised(exception) == [status |-> exception, anchors |-> {}]
ReturnedSet(anchors) == [status |-> "returned", anchors |-> anchors]
NoResult == [status |-> "pending", anchors |-> {}]

\* {str(x).strip() for x in arr if str(x).strip()}
stripped_entries(arr) ==
  { Strip(arr[i]) : i \in { j \in DOMAIN arr : Strip(arr[j]) # << >> } }

\* load_anchors(path)
load_anchors(file) ==
  IF file.kind = "missing" THEN Raised("FileNotFoundError")
  ELSE IF file.kind = "malformed" THEN Raised("JSONDecodeError")
  ELSE LET \* arr = data["anchors"] if data is a dict with the key, else data
           arr_is_list == \/ file.kind = "array"
                          \/ file.kind = "object" /\ file.has_anchors /\ file.is_list
       IN IF ~ arr_is_list \/ file.entries = << >> THEN Raised("ValueError")
          ELSE IF stripped_entries(file.entries) = {} THEN Raised("ValueError")
          ELSE ReturnedSet(stripped_entries(file.entries))

\* _load_global_anchors(path)
load_global_anchors(file) ==
  IF file.kind = "missing" THEN Raised("FileNotFoundError")
  ELSE IF file.kind = "malformed" THEN Raised("JSONDecodeError")
  \* payload.get: only a dict has it
  ELSE IF file.kind # "object" THEN Raised("AttributeError")
  ELSE LET \* anchors = payload.get("anchors", [])
           anchors_is_list == ~ file.has_anchors \/ file.is_list
           anchors == IF file.has_anchors THEN file.entries ELSE << >>
       IN IF ~ anchors_is_list \/ anchors = << >> THEN Raised("ValueError")
          ELSE ReturnedSet(stripped_entries(anchors))

\* ---- the files the loaders are called on
AnchorEntries == { Str("de"), Str(" "), << " ", "le", " " >>, EmptyStr }
AnchorEntryLists == SeqsUpTo(AnchorEntries, MaxAnchorEntries)
AnchorFiles ==
  { MissingFile, MalformedFile, ScalarFile, ObjectWithoutAnchors, ObjectWithNonListAnchors }
    \cup { ObjectFile(e) : e \in AnchorEntryLists }
    \cup { ArrayFile(e) : e \in AnchorEntryLists }

InitLoad ==
  /\ ld_call \in [loader : { "load_anchors", "_load_global_anchors" }, file : AnchorFiles]
  /\ ld_result = NoResult

\* the loaders when another part of the pipeline is under study
IdleLoad ==
  /\ ld_call = [loader |-> "", file |-> MissingFile]
  /\ ld_result = NoResult

\* ---- the collections of sentences aggregated in several orders
OrderSentences ==
  { << >>,
    << [key |-> "k1", realization |-> "r1"] >>,
    << [key |-> "k1", realization |-> "r1"], [key |-> "k1", realization |-> "r2"] >>,
    << [key |-> "k1", realization |-> "r2"], [key |-> "k2", realization |-> ""] >>,
    << [key |-> "k2", realization |-> ""], [key |-> "k1", realization |-> "r1"] >> }

\* three GrammarState() objects and a collection to feed them
InitOrder ==
  /\ od_batch \in SeqsUpTo(OrderSentences, MaxBatch)
  /\ od_workers = << << >>, << >> >>
  /\ od_done = {}

\* no collection when another part of the pipeline is under study
IdleOrder ==
  /\ od_batch = << >>
  /\ od_workers = << << >>, << >> >>
  /\ od_done = {}

\* GrammarState.__init__
InitGS ==
  /\ patterns = << >>
  /\ min_count_seen \in MinCountSeenValues
  /\ min_distinct_sentence_count \in MinDistinctValues
  /\ gs_calls = 0
  /\ gs_occ = [k \in Keys |-> 0]
  /\ gs_sent = [k \in Keys |-> 0]
  /\ gs_real = [k \in Keys |-> {}]
  /\ gs_query = NoQuery

\* ---- two independent make_key calls, for comparing their results
PairAnchorTokens == { EmptyStr, Str("a"), Str(","), Str("\\") }
PairParamItems == [name : { Str("a"), << " ", "a" >> }, value : { Str("1"), Str(",") }]
PairInputs ==
  [family : { Str("f") },
   anchors : SeqsUpTo(PairAnchorTokens, MaxPairAnchors),
   params : SeqsUpTo(PairParamItems, 1)]

InitKeyPair ==
  /\ key_in \in PairInputs
  /\ key_other \in PairInputs
  /\ key_reordered = key_in.params
  /\ key_out = NotCalled
  /\ key_out_reordered = NotCalled
  /\ key_out_other = NotCalled
  /\ key_family = NoFamily

\* the personal state when another part of the pipeline is under study
IdleGS ==
  /\ patterns = << >>
  /\ min_count_seen = DefaultMinCountSeen
  /\ min_distinct_sentence_count = DefaultMinDistinctSentenceCount
  /\ gs_calls = 0
  /\ gs_occ = [k \in Keys |-> 0]
  /\ gs_sent = [k \in Keys |-> 0]
  /\ gs_real = [k \in Keys |-> {}]
  /\ gs_query = NoQuery

\* one call GrammarState.observe_sentence(pats)
ObserveSentence ==
  /\ gs_calls < MaxCalls
  /\ \E pats \in PatternLists :
       /\ patterns' = GrammarState_observe_sentence(patterns, pats)
       /\ gs_occ' = [k \in Keys |->
            gs_occ[k] + Cardinality({ i \in DOMAIN pats : pats[i].key = k })]
       /\ gs_sent' = [k \in Keys |->
            gs_sent[k] + (IF \E i \in DOMAIN pats : pats[i].key = k THEN 1 ELSE 0)]
       /\ gs_real' = [k \in Keys |->
            gs_real[k] \cup { pats[i].realization :
                               i \in { j \in DOMAIN pats : pats[j].key = k
                                                           /\ pats[j].realization # "" } }]
  /\ gs_calls' = gs_calls + 1
  /\ gs_query' = NoQuery
  /\ UNCHANGED << min_count_seen, min_distinct_sentence_count, notGS >>

\* one call GrammarState.is_emerged(key)
IsEmerged ==
  /\ \E key \in Keys :
       gs_query' = [key |-> key,
                    result |-> GrammarState_is_emerged(patterns, key, min_count_seen,
                                                        min_distinct_sentence_count)]
  /\ UNCHANGED << patterns, min_count_seen, min_distinct_sentence_count,
                  gs_calls, gs_occ, gs_sent, gs_real, notGS >>

NextGS ==
  \/ ObserveSentence
  \/ IsEmerged

InitSpecGS == InitGS /\ IdlePrior /\ IdleKey /\ IdleExtract /\ IdleAnchors /\ IdleLoad /\ IdleOrder

SpecGS == InitSpecGS /\ [][NextGS]_vars

\* ---- what the state says about a key (0 / empty for a key without entry)
count_seen(k) == IF k \in DOMAIN patterns THEN patterns[k].count_seen ELSE 0
distinct_sentence_count(k) ==
  IF k \in DOMAIN patterns THEN patterns[k].distinct_sentence_count ELSE 0
stored_realizations(k) == IF k \in DOMAIN patterns THEN patterns[k].realizations ELSE {}
is_emerged(k) ==
  GrammarState_is_emerged(patterns, k, min_count_seen, min_distinct_sentence_count)
DefaultThresholds ==
  /\ min_count_seen = DefaultMinCountSeen
  /\ min_distinct_sentence_count = DefaultMinDistinctSentenceCount

C2_CountsMatchHistory ==
  \A k \in Keys :
    /\ count_seen(k) = gs_occ[k]
    /\ distinct_sentence_count(k) = gs_sent[k]

\* C2 witness: a key that occurred more often than the number of sentences
\* containing it (it was repeated inside one sentence), over two sentences.
C2_Witness ==
  \E k \in Keys :
    /\ gs_sent[k] = 2
    /\ gs_occ[k] > 2
    /\ distinct_sentence_count(k) = 2

LimitReached == max_lines # 0 /\ total_lines + 1 > max_lines

CanRead == pc = "read" /\ total_lines < MaxLines

\* a line beyond --max-lines: break
ReadBeyondLimit ==
  /\ CanRead
  /\ LimitReached
  /\ total_lines' = total_lines + 1
  /\ pc' = "final_flush"
  /\ stop' = "max_lines"
  /\ UNCHANGED << commit_every, cap_realizations_per_pattern, max_lines, kept_lines,
                  count_occ_batch, count_sent_batch, realizations_cache, realization_count,
                  db, committed, pr_occ, pr_sent, pr_real, pr_commit, batch_sentences,
                  notPrior >>

\* a blank or whitespace-only line: continue
ReadBlankLine ==
  /\ CanRead
  /\ ~ LimitReached
  /\ total_lines' = total_lines + 1
  /\ UNCHANGED << pc, stop, commit_every, cap_realizations_per_pattern, max_lines, kept_lines,
                  count_occ_batch, count_sent_batch, realizations_cache, realization_count,
                  db, committed, pr_occ, pr_sent, pr_real, pr_commit, batch_sentences,
                  notPrior >>

\* a non-blank line for which tokenize_words_jieba returns no token
\* (punctuation only): kept_lines is incremented, then continue
ReadUntokenizedLine ==
  /\ CanRead
  /\ ~ LimitReached
  /\ total_lines' = total_lines + 1
  /\ kept_lines' = kept_lines + 1
  /\ UNCHANGED << pc, stop, commit_every, cap_realizations_per_pattern, max_lines,
                  count_occ_batch, count_sent_batch, realizations_cache, realization_count,
                  db, committed, pr_occ, pr_sent, pr_real, pr_commit, batch_sentences,
                  notPrior >>

\* a line with tokens: its patterns are counted, then the commit check
ReadSentence ==
  /\ CanRead
  /\ ~ LimitReached
  /\ total_lines' = total_lines + 1
  /\ kept_lines' = kept_lines + 1
  /\ \E pats \in PriorPatternLists :
       LET a == CountPatterns([occ |-> count_occ_batch, cache |-> realizations_cache,
                               count |-> realization_count, rows |-> db.rows],
                              cap_realizations_per_pattern, pats, 1)
       IN /\ count_occ_batch' = a.occ
          /\ realizations_cache' = a.cache
          /\ realization_count' = a.count
          /\ count_sent_batch' = CountSentenceKeys(count_sent_batch, pats)
          /\ pr_occ' = [k \in Keys |->
               pr_occ[k] + Cardinality({ i \in DOMAIN pats : pats[i].key = k })]
          /\ pr_sent' = [k \in Keys |->
               pr_sent[k] + (IF \E i \in DOMAIN pats : pats[i].key = k THEN 1 ELSE 0)]
          /\ pr_real' = [k \in Keys |->
               pr_real[k] \cup { pats[i].realization :
                                  i \in { j \in DOMAIN pats : pats[j].key = k
                                                              /\ pats[j].realization # "" } }]
          /\ batch_sentences' = batch_sentences + (IF pats # << >> THEN 1 ELSE 0)
          /\ IF commit_every = 0
               THEN \* kept_lines % 0: ZeroDivisionError, the process dies
                    /\ pc' = "crashed"
                    /\ stop' = "error"
                    /\ db' = rollback(committed, [db EXCEPT !.rows = a.rows])
               ELSE /\ pc' = IF kept_lines' % commit_every = 0 THEN "flush" ELSE "read"
                    /\ stop' = stop
                    /\ db' = [db EXCEPT !.rows = a.rows]
  /\ UNCHANGED << commit_every, cap_realizations_per_pattern, max_lines, committed,
                  pr_commit, notPrior >>

\* the corpus file has no further line
EndOfCorpus ==
  /\ pc = "read"
  /\ pc' = "final_flush"
  /\ stop' = "eof"
  /\ UNCHANGED << commit_every, cap_realizations_per_pattern, max_lines, total_lines,
                  kept_lines, count_occ_batch, count_sent_batch, realizations_cache,
                  realization_count, db, committed, pr_occ, pr_sent, pr_real, pr_commit,
                  batch_sentences, notPrior >>

\* commit boundary: flush_counts() and meta_put("sentences_processed")
Flush ==
  /\ pc = "flush"
  /\ db' = meta_put(
             [db EXCEPT !.stats = flush_counts(@, count_occ_batch, count_sent_batch,
                                               realization_count)],
             "sentences_processed", kept_lines)
  /\ count_occ_batch' = ZeroCounts
  /\ count_sent_batch' = ZeroCounts
  /\ batch_sentences' = 0
  /\ pc' = "commit"
  /\ UNCHANGED << stop, commit_every, cap_realizations_per_pattern, max_lines, total_lines,
                  kept_lines, realizations_cache, realization_count, committed,
                  pr_occ, pr_sent, pr_real, pr_commit, notPrior >>

\* commit boundary: conn.commit()
Commit ==
  /\ pc = "commit"
  /\ committed' = commit(committed, db)
  /\ pr_commit' = [occ |-> pr_occ, sent |-> pr_sent]
  /\ pc' = "read"
  /\ UNCHANGED << stop, commit_every, cap_realizations_per_pattern, max_lines, total_lines,
                  kept_lines, count_occ_batch, count_sent_batch, realizations_cache,
                  realization_count, db, pr_occ, pr_sent, pr_real, batch_sentences,
                  notPrior >>

\* after the loop: flush_counts() and the meta_put calls
FinalFlush ==
  /\ pc = "final_flush"
  /\ db' = meta_put(
             meta_put(
               [db EXCEPT !.stats = final_flush_counts(@, count_occ_batch, count_sent_batch,
                                                       realization_count)],
               "sentences_processed", kept_lines),
             "lines_seen", total_lines)
  /\ count_occ_batch' = ZeroCounts
  /\ count_sent_batch' = ZeroCounts
  /\ batch_sentences' = 0
  /\ pc' = "p_global"
  /\ UNCHANGED << stop, commit_every, cap_realizations_per_pattern, max_lines, total_lines,
                  kept_lines, realizations_cache, realization_count, committed,
                  pr_occ, pr_sent, pr_real, pr_commit, notPrior >>

\* after the loop: total_df_sum and the p_global UPDATE
ComputePGlobal ==
  /\ pc = "p_global"
  /\ db' = meta_put([db EXCEPT !.stats = compute_p_global(@)],
                    "total_df_sum", total_df_sum(db.stats))
  /\ pc' = "final_commit"
  /\ UNCHANGED << stop, commit_every, cap_realizations_per_pattern, max_lines, total_lines,
                  kept_lines, count_occ_batch, count_sent_batch, realizations_cache,
                  realization_count, committed, pr_occ, pr_sent, pr_real, pr_commit,
                  batch_sentences, notPrior >>

\* after the loop: conn.commit(); conn.close()
FinalCommit ==
  /\ pc = "final_commit"
  /\ committed' = commit(committed, db)
  /\ pr_commit' = [occ |-> pr_occ, sent |-> pr_sent]
  /\ pc' = "done"
  /\ UNCHANGED << stop, commit_every, cap_realizations_per_pattern, max_lines, total_lines,
                  kept_lines, count_occ_batch, count_sent_batch, realizations_cache,
                  realization_count, db, pr_occ, pr_sent, pr_real, batch_sentences,
                  notPrior >>

\* the process is killed or raises (tokenizer or I/O error) between two steps:
\* what was not committed is gone
Crash ==
  /\ pc \in {"read", "flush", "commit", "final_flush", "p_global", "final_commit"}
  /\ pc' = "crashed"
  /\ stop' = "crash"
  /\ db' = rollback(committed, db)
  /\ UNCHANGED << commit_every, cap_realizations_per_pattern, max_lines, total_lines,
                  kept_lines, count_occ_batch, count_sent_batch, realizations_cache,
                  realization_count, committed, pr_occ, pr_sent, pr_real, pr_commit,
                  batch_sentences, notPrior >>

NextPrior ==
  \/ ReadBeyondLimit
  \/ ReadBlankLine
  \/ ReadUntokenizedLine
  \/ ReadSentence
  \/ EndOfCorpus
  \/ Flush
  \/ Commit
  \/ FinalFlush
  \/ ComputePGlobal
  \/ FinalCommit
  \/ Crash

InitSpecPrior == InitPrior /\ IdleGS /\ IdleKey /\ IdleExtract /\ IdleAnchors /\ IdleLoad /\ IdleOrder

SpecPrior == InitSpecPrior /\ [][NextPrior]_vars

\* ---- what a store says about a key (0 for a key without row)
count_occurrences(store, k) == store.stats[k].count_occurrences
count_sentences(store, k) == store.stats[k].count_sentences
distinct_realization_count(store, k) == store.stats[k].distinct_realization_count
realization_rows(store, k) == { r \in Realizations : <<k, r>> \in store.rows }
BatchEmpty == count_occ_batch = ZeroCounts /\ count_sent_batch = ZeroCounts

C6_FlushedEveryN ==
  commit_every > 0 =>
    /\ (pc = "read" /\ kept_lines > 0 /\ kept_lines % commit_every = 0)
          => (BatchEmpty /\ committed = db)
    /\ batch_sentences <= commit_every

\* C7: after a crash or fatal error the persisted store holds exactly the
\* aggregates of the last commit boundary: the counts are those of the
\* sentences processed up to that commit, nothing committed is lost, and what
\* is missing is what was observed after it.
C7_CrashKeepsLastCommit ==
  pc = "crashed" =>
    /\ db = committed
    /\ \A k \in Keys :
         /\ count_occurrences(committed, k) = pr_commit.occ[k]
         /\ count_sentences(committed, k) = pr_commit.sent[k]
         /\ pr_commit.occ[k] <= pr_occ[k]
         /\ Cardinality(realization_rows(committed, k))
              >= distinct_realization_count(committed, k)

\* C7 witness: a crash after a commit boundary that persisted counts, with
\* later observations lost.
C7_Witness ==
  /\ pc = "crashed"
  /\ \E k \in Keys : count_occurrences(committed, k) > 0
  /\ \E k \in Keys : pr_occ[k] > pr_commit.occ[k]

\* C8: when the build has terminated after the line limit or the end of the
\* corpus, the final flush and commit have happened: nothing is left in the
\* batch, nothing is uncommitted, and the persisted occurrence counts cover
\* every sentence processed before the stop.
C8_FinalFlushBeforeTermination ==
  /\ pc \in {"p_global", "final_commit", "done"} => BatchEmpty
  /\ pc = "done" =>
       /\ stop \in {"max_lines", "eof"}
       /\ committed = db
       /\ committed.meta.sentences_processed = kept_lines
       /\ committed.meta.lines_seen = total_lines
       /\ SumOver([k \in Keys |-> count_occurrences(committed, k)], Keys)
            = SumOver(pr_occ, Keys)

\* C8 witness: a build stopped by --max-lines and finished, in which no commit
\* boundary was reached (one kept sentence, commit interval 2): everything
\* persisted comes from the final flush.
C8_Witness ==
  /\ pc = "done"
  /\ stop = "max_lines"
  /\ commit_every = 2
  /\ kept_lines = 1
  /\ \E k \in Keys : pr_occ[k] > 0 /\ count_occurrences(committed, k) = pr_occ[k]

\* the sum of the p_global numerators over all rows
PGlobalNumSum(store) ==
  SumOver([k \in Keys |-> store.stats[k].p_global.num],
          { k \in Keys : store.stats[k].present })

\* C9: after a completed build every key has p_global = count_sentences / S
\* with S the sum of count_sentences over all keys when S > 0 (so the values
\* sum to 1), and p_global = 0 when S = 0; before the final pass (at every
\* intermediate flush and commit, and after a crash) every p_global is 0.
C9_PGlobalNormalised ==
  /\ pc = "done" =>
       LET s == SumOver([k \in Keys |-> count_sentences(committed, k)], Keys)
       IN /\ committed.meta.total_df_sum = s
          /\ s = SumOver(pr_sent, Keys)
          /\ \A k \in Keys :
               committed.stats[k].present =>
                 IF s > 0
                   THEN /\ committed.stats[k].p_global.num = pr_sent[k]
                        /\ committed.stats[k].p_global.den = s
                   ELSE committed.stats[k].p_global = PZero
          /\ s > 0 => PGlobalNumSum(committed) = s
  /\ pc \in {"read", "flush", "commit", "final_flush", "p_global", "crashed"} =>
       \A k \in Keys : /\ db.stats[k].p_global = PZero
                       /\ committed.stats[k].p_global = PZero
  /\ pc = "final_commit" => \A k \in Keys : committed.stats[k].p_global = PZero

\* C9 witness: a completed build with two keys of different count_sentences.
C9_Witness ==
  /\ pc = "done"
  /\ count_sentences(committed, "k1") = 2
  /\ count_sentences(committed, "k2") = 1
  /\ committed.stats["k1"].p_global = [num |-> 2, den |-> 3]
  /\ count_occurrences(committed, "k1") > count_sentences(committed, "k1")

\* ------------------------------------------------------------------------
\* grammar/pattern_key.py: calls of make_key
\* ------------------------------------------------------------------------
\* make_key(family, anchors, params)
MakeKey ==
  /\ key_out = NotCalled
  /\ key_out' = make_key(key_in.family, key_in.anchors, key_in.params)
  /\ UNCHANGED << key_in, key_reordered, key_out_reordered,
                  key_other, key_out_other, key_family, notKey >>

\* make_key(family, anchors, params') with the items inserted in another order
MakeKeyReordered ==
  /\ key_out_reordered = NotCalled
  /\ key_out_reordered' = make_key(key_in.family, key_in.anchors, key_reordered)
  /\ UNCHANGED << key_in, key_reordered, key_out,
                  key_other, key_out_other, key_family, notKey >>

\* family_from_key(key) on the key make_key returned
FamilyFromKey ==
  /\ key_out # NotCalled
  /\ key_out.ok
  /\ key_family = NoFamily
  /\ key_family' = family_from_key(key_out.key)
  /\ UNCHANGED << key_in, key_reordered, key_out, key_out_reordered,
                  key_other, key_out_other, notKey >>

NextKey ==
  \/ MakeKey
  \/ MakeKeyReordered
  \/ FamilyFromKey

InitSpecKey == InitKey /\ IdleGS /\ IdlePrior /\ IdleExtract /\ IdleAnchors /\ IdleLoad /\ IdleOrder

SpecKey == InitSpecKey /\ [][NextKey]_vars

\* the names of the parameters as they stand in an encoded key
NamesInKey(params) ==
  LET n == normalize_params(params) IN [i \in DOMAIN n.items |-> n.items[i].name]

\* C10 (as written): make_key is independent of the order in which the
\* parameters are supplied: the same name/value pairs inserted in any order
\* yield the identical string (or the same error), and the parameters stand in
\* the string in non-decreasing order of their names.  Fails for names that
\* differ only by surrounding whitespace: they are trimmed to the same name and
\* the stable sort keeps their insertion order.
C10_OrderIndependent ==
  /\ (key_out # NotCalled /\ key_out_reordered # NotCalled) => key_out = key_out_reordered
  /\ key_out.ok =>
       \A i, j \in DOMAIN NamesInKey(key_in.params) :
         i < j => ~ StrLess(NamesInKey(key_in.params)[j], NamesInKey(key_in.params)[i])

\* C12: family round trip: for every family without '|', every anchor sequence
\* and every parameter mapping, family_from_key(make_key(family, anchors,
\* params)) is the family supplied, also when anchors or parameter values
\* contain '|', ',', '=' or '\'.
C12_FamilyRoundTrip ==
  /\ key_family # NoFamily => key_family = key_in.family
  /\ (key_out # NotCalled /\ key_out.ok) => family_from_key(key_out.key) = key_in.family

\* C12 witness: the family was recovered from a key whose anchor holds '|',
\* '\' and '=' and whose parameter value holds '|'.
C12_Witness ==
  /\ key_family = Str("f")
  /\ key_in.anchors = << << "|", "\\", "=" >> >>
  /\ \E i \in DOMAIN key_in.params : key_in.params[i].value = << "2", "|" >>

\* the characters of a string
Chars(x) == { x[i] : i \in DOMAIN x }

\* C13: make_key fails with a validation error and returns no key when the
\* family contains '|' or a parameter name is empty after trimming, and
\* succeeds otherwise (for every family without '|').
C13_Validation ==
  key_out # NotCalled =>
    /\ key_out.ok <=>
          /\ "|" \notin Chars(key_in.family)
          /\ \A i \in DOMAIN key_in.params : Chars(key_in.params[i].name) # {} /\
                 Chars(key_in.params[i].name) # { " " }
    /\ ~ key_out.ok => key_out = KeyError
    /\ key_out.ok => key_out.key # << >>

\* C13 witness: a call with a family holding '|' and well-formed parameters
\* was rejected.
C13_Witness ==
  /\ key_out = KeyError
  /\ "|" \in Chars(key_in.family)
  /\ key_in.params # << >>
  /\ \A i \in DOMAIN key_in.params : key_in.params[i].name = Str("a")

\* ------------------------------------------------------------------------
\* grammar/pattern_key.py: two calls of make_key compared
\* ------------------------------------------------------------------------
\* make_key(family2, anchors2, params2)
MakeKeyOther ==
  /\ key_out_other = NotCalled
  /\ key_out_other' = make_key(key_other.family, key_other.anchors, key_other.params)
  /\ UNCHANGED << key_in, key_reordered, key_out, key_out_reordered,
                  key_other, key_family, notKey >>

NextKeyPair ==
  \/ MakeKey
  \/ MakeKeyOther

InitSpecKeyPair == InitKeyPair /\ IdleGS /\ IdlePrior /\ IdleExtract /\ IdleAnchors /\ IdleLoad /\ IdleOrder

SpecKeyPair == InitSpecKeyPair /\ [][NextKeyPair]_vars

\* the name-to-value mapping a list of items stands for
AsMapping(items) == { << items[i].name, items[i].value >> : i \in DOMAIN items }

\* C11 (as written): two encoded keys are equal exactly when the families are
\* equal, the anchor sequences are equal element by element and the parameter
\* mappings are the same.  Fails: an empty anchor list and a list of one empty
\* token both encode to "a=", and names differing by surrounding whitespace
\* are trimmed to the same name.
C11_KeysEqualIffComponentsEqual ==
  (key_out # NotCalled /\ key_out_other # NotCalled /\ key_out.ok /\ key_out_other.ok) =>
    ( key_out.key = key_out_other.key
        <=> /\ key_in.family = key_other.family
            /\ key_in.anchors = key_other.anchors
            /\ AsMapping(key_in.params) = AsMapping(key_other.params) )

\* ------------------------------------------------------------------------
\* grammar/patterns.py: calls of the extraction functions
\* ------------------------------------------------------------------------
Pending(fn) == ex_call.fn = fn /\ ~ ex_returned

\* _anchor_pair_patterns(tokens, anchors, max_gap)
AnchorPairPatterns ==
  /\ Pending("_anchor_pair_patterns")
  /\ extracted' = anchor_pair_patterns(ex_call.tokens, ex_call.anchors, ex_call.max_gap)
  /\ ex_returned' = TRUE
  /\ UNCHANGED << ex_call, ex_sig, notExtract >>

\* _anchor_span_patterns(tokens, anchors, max_gap)
AnchorSpanPatterns ==
  /\ Pending("_anchor_span_patterns")
  /\ extracted' = anchor_span_patterns(ex_call.tokens, ex_call.anchors, ex_call.max_gap)
  /\ ex_returned' = TRUE
  /\ UNCHANGED << ex_call, ex_sig, notExtract >>

\* _span_signature_patterns(tokens, anchors, max_gap)
SpanSignaturePatterns ==
  /\ Pending("_span_signature_patterns")
  /\ extracted' = span_signature_patterns(ex_call.tokens, ex_call.anchors, ex_call.max_gap)
  /\ ex_returned' = TRUE
  /\ UNCHANGED << ex_call, ex_sig, notExtract >>

\* _anchor_skipgrams(tokens, anchors, max_jump, add_bigrams, add_trigrams)
AnchorSkipgrams ==
  /\ Pending("_anchor_skipgrams")
  /\ extracted' = anchor_skipgrams(ex_call.tokens, ex_call.anchors, ex_call.max_jump,
                                   "add_bigrams" \in ex_call.flags,
                                   "add_trigrams" \in ex_call.flags)
  /\ ex_returned' = TRUE
  /\ UNCHANGED << ex_call, ex_sig, notExtract >>

\* _anchor_sequence_signature(tokens, anchors)
AnchorSequenceSignature ==
  /\ Pending("_anchor_sequence_signature")
  /\ extracted' = anchor_sequence_signature(ex_call.tokens, ex_call.anchors)
  /\ ex_returned' = TRUE
  /\ UNCHANGED << ex_call, ex_sig, notExtract >>

\* skeletonize_compressed(tokens, anchors)
SkeletonizeCompressed ==
  /\ Pending("skeletonize_compressed")
  /\ ex_sig' = skeletonize_compressed(ex_call.tokens, ex_call.anchors)
  /\ ex_returned' = TRUE
  /\ UNCHANGED << ex_call, extracted, notExtract >>

\* _bucket_gap(g)
BucketGap ==
  /\ Pending("_bucket_gap")
  /\ ex_sig' = bucket_gap(ex_call.g)
  /\ ex_returned' = TRUE
  /\ UNCHANGED << ex_call, extracted, notExtract >>

\* extract_patterns_from_tokens(tokens, anchors, <toggles>, span_max_gap, skip_max_jump)
ExtractPatternsFromTokens ==
  /\ Pending("extract_patterns_from_tokens")
  /\ LET r == extract_patterns_from_tokens(ex_call.tokens, ex_call.anchors, ex_call.flags,
                                           ex_call.max_gap, ex_call.max_jump)
     IN /\ extracted' = r.extracted
        /\ ex_sig' = r.skel
  /\ ex_returned' = TRUE
  /\ UNCHANGED << ex_call, notExtract >>

NextExtract ==
  \/ AnchorPairPatterns
  \/ AnchorSpanPatterns
  \/ SpanSignaturePatterns
  \/ AnchorSkipgrams
  \/ AnchorSequenceSignature
  \/ SkeletonizeCompressed
  \/ BucketGap
  \/ ExtractPatternsFromTokens

InitSpecExtract == InitExtract /\ IdleGS /\ IdlePrior /\ IdleKey /\ IdleAnchors /\ IdleLoad /\ IdleOrder

SpecExtract == InitSpecExtract /\ [][NextExtract]_vars

\* ---- what the claims about patterns.py speak of
Returned(fn) == ex_call.fn = fn /\ ex_returned

\* the 0-based positions of the anchor occurrences of the sentence
AnchorPositions == { i \in 0 .. Len(ex_call.tokens) - 1 : Tok(ex_call.tokens, i) \in ex_call.anchors }

\* how often a pattern stands in the returned list
Emitted(p) == Cardinality({ k \in DOMAIN extracted : extracted[k] = p })

EmittedPatterns == { extracted[k] : k \in DOMAIN extracted }

\* ---- C14
\* the ordered pairs of anchor occurrences whose gap is at most max_gap
QualifyingPairs ==
  { q \in AnchorPositions \X AnchorPositions :
      q[1] < q[2] /\ q[2] - q[1] - 1 <= ex_call.max_gap }

\* the anch_pair pattern of the occurrences at q[1] < q[2]
PairPatternOf(q) ==
  Pattern(key_anchor_pair(Tok(ex_call.tokens, q[1]), Tok(ex_call.tokens, q[2]),
                          bucket_gap(q[2] - q[1] - 1)),
          JoinSpace(Slice(ex_call.tokens, q[1], q[2] + 1)))

\* the pair (把, 了) of [我, 把, 它, 扔, 掉, 了]: gap 3, bucket "2-3"
ExamplePairPattern ==
  Pattern(<< "a", "n", "c", "h", "_", "p", "a", "i", "r", "|", "a", "=", "ba", ",", "le", "|", "p", "=", "g", "a", "p", "=", "2", "-", "3" >>, << "ba", " ", "ta", " ", "reng", " ", "diao", " ", "le" >>)

\* C14: anchor-pair extraction is sound and complete: the anch_pair patterns
\* returned are exactly one per ordered pair of anchor occurrences i1 < i2 with
\* gap = i2 - i1 - 1 <= max_gap, keyed by (token at i1, token at i2,
\* bucket(gap)); the early break drops no qualifying pair.  For
\* [我, 把, 它, 扔, 掉, 了] with anchors {把, 了} the pair (把, 了) is returned
\* with gap bucket "2-3".
C14_AnchorPairsSoundAndComplete ==
  Returned("_anchor_pair_patterns") =>
    /\ Len(extracted) = Cardinality(QualifyingPairs)
    /\ \A q \in QualifyingPairs :
         Emitted(PairPatternOf(q))
           = Cardinality({ r \in QualifyingPairs : PairPatternOf(r) = PairPatternOf(q) })
    /\ \A p \in EmittedPatterns : \E q \in QualifyingPairs : p = PairPatternOf(q)
    /\ ( /\ ex_call.tokens = ExampleSentence
         /\ ex_call.anchors = { Ba, Le }
         /\ ex_call.max_gap >= 3 ) => extracted = << ExamplePairPattern >>

\* C14 witness: the example sentence, with max_gap equal to the gap of its pair.
C14_Witness ==
  /\ Returned("_anchor_pair_patterns")
  /\ ex_call.tokens = ExampleSentence
  /\ ex_call.anchors = { Ba, Le }
  /\ ex_call.max_gap = 3
  /\ extracted = << ExamplePairPattern >>

\* ---- C15
\* the nearest anchor occurrence after position i, or None
NearestLaterAnchor(i) ==
  IF \E j \in AnchorPositions : j > i
    THEN CHOOSE j \in AnchorPositions : j > i /\ \A k \in AnchorPositions : k > i => j <= k
  ELSE None

\* the k-th anchor occurrence of the sentence (k = 1, 2, ...)
NthAnchorPosition(k) ==
  CHOOSE i \in AnchorPositions : Cardinality({ j \in AnchorPositions : j < i }) = k - 1

GapBuckets == { bucket_gap(g) : g \in 0 .. MaxBucketArg }

\* C15 (as written): anchor-span extraction returns exactly one anch_span
\* pattern per anchor occurrence i: when the nearest later anchor occurrence j
\* has gap j - i - 1 <= max_gap, the tail is that anchor and the key's gap is
\* bucket(j - i - 1); otherwise the tail is "<END>".  The bound is the
\* gap <= max_gap bound of anchor-pair extraction.  Fails: the search stops at
\* j < i + 1 + max_gap, so an anchor at gap = max_gap is not found.
C15_SpanTailWithinMaxGap ==
  Returned("_anchor_span_patterns") =>
    /\ Len(extracted) = Cardinality(AnchorPositions)
    /\ \A k \in DOMAIN extracted :
         LET i == NthAnchorPosition(k)
             j == NearestLaterAnchor(i)
             t == Tok(ex_call.tokens, i)
         IN IF j # None /\ j - i - 1 <= ex_call.max_gap
              THEN extracted[k].pattern_key
                     = key_anchor_span(t, Tok(ex_call.tokens, j), bucket_gap(j - i - 1))
            ELSE \E b \in GapBuckets : extracted[k].pattern_key = key_anchor_span(t, END, b)

\* ---- C16
\* the pairs and triples of anchor occurrences whose consecutive position
\* differences are at most max_jump
QualifyingSkip2 ==
  { q \in AnchorPositions \X AnchorPositions :
      q[1] < q[2] /\ q[2] - q[1] <= ex_call.max_jump }

QualifyingSkip3 ==
  { q \in AnchorPositions \X AnchorPositions \X AnchorPositions :
      /\ q[1] < q[2] /\ q[2] - q[1] <= ex_call.max_jump
      /\ q[2] < q[3] /\ q[3] - q[2] <= ex_call.max_jump }

Dots == << " ", ".", ".", ".", " " >>

Skip2PatternOf(q) ==
  LET A1 == Tok(ex_call.tokens, q[1])
      A2 == Tok(ex_call.tokens, q[2])
  IN Pattern(key_anchor_skip(<< A1, A2 >>, ex_call.max_jump), A1 \o Dots \o A2)

Skip3PatternOf(q) ==
  LET A1 == Tok(ex_call.tokens, q[1])
      A2 == Tok(ex_call.tokens, q[2])
      A3 == Tok(ex_call.tokens, q[3])
  IN Pattern(key_anchor_skip(<< A1, A2, A3 >>, ex_call.max_jump),
             A1 \o Dots \o A2 \o Dots \o A3)

Skip2Expected(p) ==
  IF "add_bigrams" \in ex_call.flags
    THEN Cardinality({ q \in QualifyingSkip2 : Skip2PatternOf(q) = p })
  ELSE 0

Skip3Expected(p) ==
  IF "add_trigrams" \in ex_call.flags
    THEN Cardinality({ q \in QualifyingSkip3 : Skip3PatternOf(q) = p })
  ELSE 0

\* C16: anchor skip-gram extraction returns exactly one a_skip2 pattern for
\* every pair of anchor occurrences i1 < i2 with i2 - i1 <= max_jump and
\* exactly one a_skip3 pattern for every triple i1 < i2 < i3 with
\* i2 - i1 <= max_jump and i3 - i2 <= max_jump; the pruning omits no
\* qualifying pair or triple, and each key carries the ordered anchor tuple
\* and max_jump.
C16_SkipgramsSoundAndComplete ==
  Returned("_anchor_skipgrams") =>
    /\ \A p \in EmittedPatterns \cup { Skip2PatternOf(q) : q \in QualifyingSkip2 }
                  \cup { Skip3PatternOf(q) : q \in QualifyingSkip3 } :
         Emitted(p) = Skip2Expected(p) + Skip3Expected(p)
    /\ ( /\ ex_call.tokens = << Ba, Wo, Le, Ba >>
         /\ ex_call.anchors = { Ba, Le }
         /\ ex_call.max_jump = 2
         /\ ex_call.flags = { "add_bigrams", "add_trigrams" } )
       => extracted = << Pattern(<< "a", "_", "s", "k", "i", "p", "2", "|", "a", "=", "ba", ",", "le", "|", "p", "=", "m", "a", "x", "_", "j", "u", "m", "p", "=", "2" >>, << "ba", " ", ".", ".", ".", " ", "le" >>),
                         Pattern(<< "a", "_", "s", "k", "i", "p", "2", "|", "a", "=", "le", ",", "ba", "|", "p", "=", "m", "a", "x", "_", "j", "u", "m", "p", "=", "2" >>, << "le", " ", ".", ".", ".", " ", "ba" >>),
                         Pattern(<< "a", "_", "s", "k", "i", "p", "3", "|", "a", "=", "ba", ",", "le", ",", "ba", "|", "p", "=", "m", "a", "x", "_", "j", "u", "m", "p", "=", "2" >>,
                                 << "ba", " ", ".", ".", ".", " ", "le", " ", ".", ".", ".", " ", "ba" >>) >>

\* C16 witness: three anchor occurrences; the jump from the first to the third
\* exceeds max_jump, the two consecutive jumps do not.
C16_Witness ==
  /\ Returned("_anchor_skipgrams")
  /\ ex_call.tokens = << Ba, Wo, Le, Ba >>
  /\ ex_call.anchors = { Ba, Le }
  /\ ex_call.max_jump = 2
  /\ ex_call.flags = { "add_bigrams", "add_trigrams" }
  /\ Len(extracted) = 3

\* ---- C17
\* the space-separated parts of a signature (no part of "" )
RECURSIVE SplitSpace(_)
SplitSpace(text) ==
  IF text = << >> THEN << >>
  ELSE IF \E i \in DOMAIN text : text[i] = " "
    THEN LET first == CHOOSE i \in DOMAIN text :
                        text[i] = " " /\ \A j \in 1 .. i - 1 : text[j] # " "
         IN << SubSeq(text, 1, first - 1) >> \o SplitSpace(SubSeq(text, first + 1, Len(text)))
  ELSE << text >>

\* the anchor occurrences of the sentence in order of appearance
AnchorOccurrences ==
  [k \in 1 .. Cardinality(AnchorPositions) |-> Tok(ex_call.tokens, NthAnchorPosition(k))]

\* the patterns of one family in the returned list
OfFamily(family) ==
  SelectSeq(extracted, LAMBDA p : family_from_key(p.pattern_key) = family)

\* C17: compressed skeleton.  A sentence without an anchor occurrence has the
\* empty compressed signature and gets no cskel pattern; a sentence of anchors
\* only has a compressed signature equal to its skeleton signature and to its
\* tokens joined in order; and the signature never begins or ends with <SPAN>,
\* never has two adjacent <SPAN>, and holds the anchor occurrences in sentence
\* order ([我, 把, 它, 扔, 掉, 了] with anchors {把, 了} gives 把 <SPAN> 了).
C17_CompressedSkeleton ==
  /\ Returned("skeletonize_compressed") =>
       LET parts == SplitSpace(ex_sig)
       IN /\ AnchorPositions = {} => ex_sig = << >>
          /\ (ex_call.tokens # << >> /\ Cardinality(AnchorPositions) = Len(ex_call.tokens))
               => /\ ex_sig = JoinSpace(ex_call.tokens)
                  /\ ex_sig = skeletonize(ex_call.tokens, ex_call.anchors)
          /\ parts # << >> => parts[1] # SPAN /\ parts[Len(parts)] # SPAN
          /\ \A k \in 1 .. Len(parts) - 1 : ~ (parts[k] = SPAN /\ parts[k + 1] = SPAN)
          /\ SelectSeq(parts, LAMBDA x : x # SPAN) = AnchorOccurrences
          /\ (ex_call.tokens = ExampleSentence /\ ex_call.anchors = { Ba, Le })
               => ex_sig = << "ba", " ", "<", "S", "P", "A", "N", ">", " ", "le" >>
  /\ (Returned("extract_patterns_from_tokens")
        /\ "add_compressed_skeleton" \in ex_call.flags) =>
       /\ AnchorPositions = {} => OfFamily(<< "c", "s", "k", "e", "l" >>) = << >>
       /\ AnchorPositions # {} =>
            OfFamily(<< "c", "s", "k", "e", "l" >>)
              = << Pattern(key_compressed_skeleton(
                             skeletonize_compressed(ex_call.tokens, ex_call.anchors),
                             AnchorOccurrences),
                           JoinSpace(ex_call.tokens)) >>
       /\ (ex_call.tokens # << >> /\ Cardinality(AnchorPositions) = Len(ex_call.tokens))
            => OfFamily(<< "c", "s", "k", "e", "l" >>)
                 = << Pattern(key_compressed_skeleton(ex_sig, ex_call.tokens),
                              JoinSpace(ex_call.tokens)) >>

\* C17 witness: the example sentence, whose leading non-anchor token and whose
\* run of three non-anchor tokens are compressed.
C17_Witness ==
  /\ Returned("skeletonize_compressed")
  /\ ex_call.tokens = ExampleSentence
  /\ ex_call.anchors = { Ba, Le }
  /\ ex_sig = << "ba", " ", "<", "S", "P", "A", "N", ">", " ", "le" >>

\* ---- C18
\* the one anch_seq pattern of a sentence with two or more anchor occurrences
SequencePattern ==
  Pattern(make_key(<< "a", "n", "c", "h", "_", "s", "e", "q" >>, AnchorOccurrences, << >>).key, JoinSpace(AnchorOccurrences))

ExpectedSequencePatterns ==
  IF Cardinality(AnchorPositions) >= 2 THEN << SequencePattern >> ELSE << >>

\* C18: with the anchor-sequence family enabled a sentence yields exactly one
\* anch_seq pattern when it has two or more anchor occurrences (repeats of the
\* same anchor count) and none otherwise; the key's anchors are all anchor
\* occurrences in order of appearance, repeats kept.
C18_AnchorSequence ==
  /\ Returned("_anchor_sequence_signature") =>
       /\ extracted = ExpectedSequencePatterns
       /\ (ex_call.tokens = << Ba, Wo, Ba >> /\ ex_call.anchors = { Ba })
            => extracted = << Pattern(<< "a", "n", "c", "h", "_", "s", "e", "q", "|", "a", "=", "ba", ",", "ba", "|", "p", "=" >>, << "ba", " ", "ba" >>) >>
  /\ (Returned("extract_patterns_from_tokens") /\ "add_anchor_sequence" \in ex_call.flags)
       => OfFamily(<< "a", "n", "c", "h", "_", "s", "e", "q" >>) = ExpectedSequencePatterns

\* C18 witness: the same anchor twice, and nothing else, makes the pattern.
C18_Witness ==
  /\ Returned("_anchor_sequence_signature")
  /\ ex_call.tokens = << Ba, Wo, Ba >>
  /\ ex_call.anchors = { Ba }
  /\ Len(extracted) = 1

\* ---- C19
Placeholders == { << "<", "N", "U", "M", ">" >>, << "<", "C", "1", ">" >>, << "<", "C", "2", ">" >>, << "<", "W", ">" >> }

\* C19: extracting a token sequence without an anchor occurrence (the empty
\* sequence included), under any combination of the family toggles, returns
\* the skeleton signature made of one placeholder per token and no pattern of
\* an anchor-dependent family: the only pattern is the skel pattern, present
\* when add_skeleton is set.
C19_NoAnchorNoAnchorPatterns ==
  (Returned("extract_patterns_from_tokens") /\ AnchorPositions = {}) =>
    LET parts == SplitSpace(ex_sig)
    IN /\ Len(parts) = Len(ex_call.tokens)
       /\ \A k \in DOMAIN parts : parts[k] \in Placeholders
       /\ ex_sig = JoinSpace(parts)
       /\ extracted
            = IF "add_skeleton" \in ex_call.flags
                THEN << Pattern(make_key(<< "s", "k", "e", "l" >>, << >>, << Param(<< "s", "i", "g" >>, ex_sig) >>).key,
                                JoinSpace(ex_call.tokens)) >>
              ELSE << >>
       /\ (ex_call.tokens = << Num12 >> /\ "add_skeleton" \in ex_call.flags)
            => extracted = << Pattern(<< "s", "k", "e", "l", "|", "a", "=", "|", "p", "=", "s", "i", "g", "=", "<", "N", "U", "M", ">" >>, << "1", "2" >>) >>

\* C19 witness: a sentence without anchors extracted with every family enabled
\* and a non-empty anchor set.
C19_Witness ==
  /\ Returned("extract_patterns_from_tokens")
  /\ ex_call.flags = FamilyFlags
  /\ ex_call.anchors = { Ba }
  /\ ex_call.tokens = << Num12 >>
  /\ extracted = << Pattern(<< "s", "k", "e", "l", "|", "a", "=", "|", "p", "=", "s", "i", "g", "=", "<", "N", "U", "M", ">" >>, << "1", "2" >>) >>

\* ---- C20
BucketRank(label) ==
  CASE label = << "0" >> -> 0
    [] label = << "1" >> -> 1
    [] label = << "2", "-", "3" >> -> 2
    [] label = << "4", "-", "7" >> -> 3
    [] label = << "8", "+" >> -> 4

\* C20: the gap bucket maps 0 to "0", 1 to "1", 2 and 3 to "2-3", 4..7 to
\* "4-7" and every n >= 8 to "8+"; every n >= 0 gets exactly one of the five
\* labels, and the label does not decrease when n grows.
C20_BucketGap ==
  Returned("_bucket_gap") =>
    LET n == ex_call.g
    IN /\ n = 0 => ex_sig = << "0" >>
       /\ n = 1 => ex_sig = << "1" >>
       /\ n \in 2 .. 3 => ex_sig = << "2", "-", "3" >>
       /\ n \in 4 .. 7 => ex_sig = << "4", "-", "7" >>
       /\ n >= 8 => ex_sig = << "8", "+" >>
       /\ ex_sig \in { << "0" >>, << "1" >>, << "2", "-", "3" >>, << "4", "-", "7" >>, << "8", "+" >> }
       /\ BucketRank(ex_sig) <= BucketRank(bucket_gap(n + 1))

\* C20 witness: the first gap of the open-ended bucket.
C20_Witness ==
  /\ Returned("_bucket_gap")
  /\ ex_call.g = 8
  /\ ex_sig = << "8", "+" >>
\* ---- C21
\* the families in the order extract_patterns_from_tokens appends them, each
\* with the toggle that enables it
FamilyOrder ==
  << [flag |-> "add_tok_ngrams", family |-> << "t", "o", "k", "_", "n", "g" >>],
     [flag |-> "add_anchor_windows", family |-> << "a", "n", "c", "h", "_", "w", "i", "n" >>],
     [flag |-> "add_anchor_pairs", family |-> << "a", "n", "c", "h", "_", "p", "a", "i", "r" >>],
     [flag |-> "add_anchor_sequence", family |-> << "a", "n", "c", "h", "_", "s", "e", "q" >>],
     [flag |-> "add_skeleton", family |-> << "s", "k", "e", "l" >>],
     [flag |-> "add_compressed_skeleton", family |-> << "c", "s", "k", "e", "l" >>],
     [flag |-> "add_anchor_spans", family |-> << "a", "n", "c", "h", "_", "s", "p", "a", "n" >>],
     [flag |-> "add_span_signatures", family |-> << "s", "p", "a", "n", "_", "s", "i", "g" >>],
     [flag |-> "add_anchor_skip2", family |-> << "a", "_", "s", "k", "i", "p", "2" >>],
     [flag |-> "add_anchor_skip3", family |-> << "a", "_", "s", "k", "i", "p", "3" >>] >>

\* what the call under study returns when flags are the only toggles set
WithFlags(flags) ==
  extract_patterns_from_tokens(ex_call.tokens, ex_call.anchors, flags,
                               ex_call.max_gap, ex_call.max_jump)

RECURSIVE ConcatFamilies(_)
ConcatFamilies(k) ==
  IF k > Len(FamilyOrder) THEN << >>
  ELSE OfFamily(FamilyOrder[k].family) \o ConcatFamilies(k + 1)

\* C21: each pattern family is independently toggleable.  For fixed tokens,
\* anchors and numeric parameters the patterns of one family in the returned
\* list are those returned when that family alone is enabled, whatever the
\* other toggles are; a disabled family contributes no pattern; the returned
\* list is the families' sub-lists in one fixed order; and the returned
\* skeleton signature is the one returned with every family disabled.
C21_FamiliesIndependent ==
  Returned("extract_patterns_from_tokens") =>
    /\ \A k \in DOMAIN FamilyOrder :
         OfFamily(FamilyOrder[k].family)
           = IF FamilyOrder[k].flag \in ex_call.flags
               THEN WithFlags({ FamilyOrder[k].flag }).extracted
             ELSE << >>
    /\ extracted = ConcatFamilies(1)
    /\ ex_sig = WithFlags({}).skel
    /\ ex_sig = WithFlags(FamilyFlags \ ex_call.flags).skel

\* C21 witness: a sentence with three anchor occurrences extracted with the
\* skeleton and window families disabled and the other eight enabled; every
\* one of the eight contributes.
C21_Witness ==
  /\ Returned("extract_patterns_from_tokens")
  /\ ex_call.tokens = << Ba, Wo, Ba, YinWei >>
  /\ ex_call.anchors = { Ba, YinWei }
  /\ ex_call.flags = FamilyFlags \ { "add_skeleton", "add_anchor_windows" }
  /\ ex_sig # << >>
  /\ \A k \in DOMAIN FamilyOrder :
       OfFamily(FamilyOrder[k].family) # << >> <=> FamilyOrder[k].flag \in ex_call.flags
\* ------------------------------------------------------------------------
\* grammar/patterns.py: a call of build_anchor_set
\* ------------------------------------------------------------------------
\* the method check that opens the function
CheckMethod ==
  /\ ab_pc = "called"
  /\ ab_pc' = IF method_known(ab_call.method) THEN "scanning" ELSE "raised"
  /\ UNCHANGED << ab_call, ab_scanned, ab_counter, ab_result, notAnchors >>

\* the next sentence of corpus_tokens is counted: every eligible token
\* occurrence (tf), or every eligible token once (df)
ScanSentence ==
  /\ ab_pc = "scanning"
  /\ ab_scanned < Len(ab_call.corpus_tokens)
  /\ LET sent == ab_call.corpus_tokens[ab_scanned + 1]
     IN IF ab_call.method = "tf"
          THEN ab_counter' = CounterUpdate(ab_counter,
                 SelectSeq(sent, LAMBDA t : ok(t, ab_call.max_token_len, ab_call.allowed)))
        ELSE \E order \in Orderings(short_unique(sent, ab_call.max_token_len, ab_call.allowed)) :
               ab_counter' = CounterUpdate(ab_counter, order)
  /\ ab_scanned' = ab_scanned + 1
  /\ UNCHANGED << ab_call, ab_pc, ab_result, notAnchors >>

\* return set(t for t, _ in counter.most_common(top_k))
ReturnMostCommon ==
  /\ ab_pc = "scanning"
  /\ ab_scanned = Len(ab_call.corpus_tokens)
  /\ LET top == most_common(ab_counter, ab_call.top_k)
     IN ab_result' = AnchorSet({ top[i].t : i \in DOMAIN top })
  /\ ab_pc' = "returned"
  /\ UNCHANGED << ab_call, ab_scanned, ab_counter, notAnchors >>

NextAnchors ==
  \/ CheckMethod
  \/ ScanSentence
  \/ ReturnMostCommon

InitSpecAnchors == InitAnchors /\ IdleGS /\ IdlePrior /\ IdleKey /\ IdleExtract /\ IdleLoad /\ IdleOrder

SpecAnchors == InitSpecAnchors /\ [][NextAnchors]_vars

\* ---- C22
\* the tokens of the corpus
CorpusTokens ==
  UNION { { ab_call.corpus_tokens[s][i] : i \in DOMAIN ab_call.corpus_tokens[s] }
          : s \in DOMAIN ab_call.corpus_tokens }

\* the tokens that may become anchors
EligibleTokens ==
  { t \in CorpusTokens :
      /\ Len(t) <= ab_call.max_token_len
      /\ ab_call.allowed.given => t \in ab_call.allowed.tokens }

\* number of distinct sentences containing t
DocumentFrequency(t) ==
  Cardinality({ s \in DOMAIN ab_call.corpus_tokens :
                  \E i \in DOMAIN ab_call.corpus_tokens[s] : ab_call.corpus_tokens[s][i] = t })

\* number of occurrences of t
TotalFrequency(t) ==
  Cardinality(UNION { { << s, i >> : i \in { j \in DOMAIN ab_call.corpus_tokens[s] :
                                               ab_call.corpus_tokens[s][j] = t } }
                      : s \in DOMAIN ab_call.corpus_tokens })

Score(t) == IF ab_call.method = "df" THEN DocumentFrequency(t) ELSE TotalFrequency(t)

\* C22: build_anchor_set returns a top-K set by score.  The result has at most
\* top_k tokens (as many as there are eligible tokens, if fewer); every
\* returned token occurs in the corpus, is at most max_token_len long and is
\* in the whitelist when one is given; and no eligible token left out scores
\* strictly higher than a returned one, the score being the number of distinct
\* sentences containing the token (df) or of its occurrences (tf).
C22_TopKByScore ==
  ab_pc = "returned" =>
    /\ ab_result.returned
    /\ Cardinality(ab_result.anchors) <= ab_call.top_k
    /\ Cardinality(ab_result.anchors) = Min(ab_call.top_k, Cardinality(EligibleTokens))
    /\ ab_result.anchors \subseteq EligibleTokens
    /\ \A r \in ab_result.anchors : \A e \in EligibleTokens \ ab_result.anchors :
         Score(e) <= Score(r)

\* C22 witness: 把 is most frequent by occurrences, 了 by sentences; with
\* method df and top_k = 1 the set returned is {了}.
C22_Witness ==
  /\ ab_pc = "returned"
  /\ ab_call.corpus_tokens = << << Ba, Ba, Ba >>, << Le >>, << Le, YinWei >> >>
  /\ ab_call.method = "df"
  /\ ab_call.top_k = 1
  /\ ab_call.max_token_len = 1
  /\ ab_call.allowed = NoWhitelist
  /\ ab_result = AnchorSet({ Le })

\* ---- C23
\* C23: a call with a method other than "tf" or "df" raises before any
\* sentence of the corpus is read, whatever the corpus (the empty one
\* included), and returns no set; a call with "tf" or "df" does not raise.
C23_UnknownMethodRejectedFirst ==
  /\ (ab_pc # "idle" /\ ab_call.method \notin { "tf", "df" }) =>
       /\ ab_pc \in { "called", "raised" }
       /\ ab_scanned = 0
       /\ ab_counter = << >>
       /\ ab_result = NoAnchorSet
  /\ ab_pc = "raised" => ab_call.method \notin { "tf", "df" }

\* C23 witness: the call with method "idf" on a corpus of two sentences has raised.
C23_Witness ==
  /\ ab_pc = "raised"
  /\ ab_call.method = "idf"
  /\ ab_call.corpus_tokens = << << Ba >>, << Le, YinWei >> >>
  /\ ab_scanned = 0
  /\ ab_result = NoAnchorSet
\* ------------------------------------------------------------------------
\* calls of the anchors file loaders
\* ------------------------------------------------------------------------
\* load_anchors(path), the loader of the global prior build
LoadAnchors ==
  /\ ld_call.loader = "load_anchors"
  /\ ld_result = NoResult
  /\ ld_result' = load_anchors(ld_call.file)
  /\ UNCHANGED << ld_call, notLoad >>

\* _load_global_anchors(path), the loader of the bootstrap
LoadGlobalAnchors ==
  /\ ld_call.loader = "_load_global_anchors"
  /\ ld_result = NoResult
  /\ ld_result' = load_global_anchors(ld_call.file)
  /\ UNCHANGED << ld_call, notLoad >>

NextLoad ==
  \/ LoadAnchors
  \/ LoadGlobalAnchors

InitSpecLoad == InitLoad /\ IdleGS /\ IdlePrior /\ IdleKey /\ IdleExtract /\ IdleAnchors /\ IdleOrder

SpecLoad == InitSpecLoad /\ [][NextLoad]_vars

\* ---- C24
\* the file has one of the two documented shapes
DocumentedShape(file) ==
  \/ file.kind = "array"
  \/ file.kind = "object" /\ file.has_anchors /\ file.is_list

\* the entries of the file that are not blank, trimmed
NonBlankEntries(file) ==
  { Strip(file.entries[i]) : i \in { j \in DOMAIN file.entries :
                                       \E c \in DOMAIN file.entries[j] : file.entries[j][c] # " " } }

\* C24: each loader accepts {"anchors": [...]} and a bare array of strings,
\* returning the trimmed non-blank entries, and never returns an empty set: a
\* missing file, a missing or empty list and a list of blank entries only are
\* errors.
C24_LoadersAcceptBothShapesNeverEmpty ==
  ld_result # NoResult =>
    /\ (DocumentedShape(ld_call.file) /\ NonBlankEntries(ld_call.file) # {})
         => ld_result = ReturnedSet(NonBlankEntries(ld_call.file))
    /\ ld_result.status = "returned" => ld_result.anchors # {}
    /\ (~ DocumentedShape(ld_call.file) \/ NonBlankEntries(ld_call.file) = {})
         => ld_result.status \notin { "pending", "returned" }
\* ---- C25
\* C25: a build whose corpus has no usable sentence (every line blank, or no
\* line at all) does not complete: it aborts with an error; and blank lines
\* are skipped without being counted, so that no key is counted in more
\* sentences than there are non-blank lines.
C25_ZeroUsableSentencesAbort ==
  /\ pc = "done" => kept_lines > 0
  /\ \A k \in Keys : pr_sent[k] <= kept_lines
\* ---- C27
\* C27: no operation of the personal state decreases count_seen or
\* distinct_sentence_count of a key, and with the thresholds fixed emergence
\* is stable: a key that is emerged, or for which is_emerged has just returned
\* true, is emerged after the next operation, hence after every later
\* sequence of observe_sentence calls.
C27_CountsMonotoneEmergenceStable ==
  [][\A k \in Keys :
       /\ count_seen(k)' >= count_seen(k)
       /\ distinct_sentence_count(k)' >= distinct_sentence_count(k)
       /\ is_emerged(k) => is_emerged(k)'
       /\ (gs_query.key = k /\ gs_query.result) => is_emerged(k)']_vars

\* C27 witness: with both thresholds 1 a key emerged at its first sentence;
\* two more sentences containing it were observed and is_emerged returns true.
C27_Witness ==
  /\ min_count_seen = 1
  /\ min_distinct_sentence_count = 1
  /\ gs_calls = 3
  /\ gs_sent["k1"] = 3
  /\ distinct_sentence_count("k1") = 3
  /\ gs_query = [key |-> "k1", result |-> TRUE]
\* ------------------------------------------------------------------------
\* the two statistics stores: a run is either a session of the personal
\* grammar state or a global prior build
\* ------------------------------------------------------------------------
\* (the personal state is GrammarState() with its default thresholds)
InitSpecCounts ==
  /\ IdleGS
  /\ \/ IdlePrior
     \/ InitPrior
  /\ IdleKey /\ IdleExtract /\ IdleAnchors /\ IdleLoad /\ IdleOrder

NextCounts ==
  \/ pc = "idle" /\ NextGS
  \/ NextPrior

SpecCounts == InitSpecCounts /\ [][NextCounts]_vars

\* ---- C28
\* C28: count ordering.  Every key with an entry in the personal state has
\* 1 <= distinct_sentence_count <= count_seen, and distinct_sentence_count is
\* at most the number of observe_sentence calls made; is_emerged on a key
\* never observed returns false and creates no entry; and in the global prior
\* store as committed, every stored key has 1 <= count_sentences <=
\* count_occurrences.
C28_CountOrdering ==
  /\ \A k \in DOMAIN patterns :
       /\ 1 <= patterns[k].distinct_sentence_count
       /\ patterns[k].distinct_sentence_count <= patterns[k].count_seen
       /\ patterns[k].distinct_sentence_count <= gs_calls
  /\ \A k \in Keys :
       (gs_query.key = k /\ gs_occ[k] = 0) =>
         /\ gs_query.result = FALSE
         /\ k \notin DOMAIN patterns
  /\ \A k \in Keys :
       committed.stats[k].present =>
         /\ 1 <= committed.stats[k].count_sentences
         /\ committed.stats[k].count_sentences <= committed.stats[k].count_occurrences

\* C28 witness (personal state): a key seen three times in two sentences, and
\* is_emerged asked for a key never observed.
C28_Witness ==
  /\ gs_calls = 2
  /\ "k1" \in DOMAIN patterns
  /\ patterns["k1"].count_seen = 3
  /\ patterns["k1"].distinct_sentence_count = 2
  /\ gs_occ["k2"] = 0
  /\ gs_query = [key |-> "k2", result |-> FALSE]
  /\ "k2" \notin DOMAIN patterns
\* ------------------------------------------------------------------------
\* grammar/state.py: one collection of sentences aggregated by a single
\* GrammarState in list order, and by two more GrammarState objects that
\* share the sentences between them and take them in any order
\* ------------------------------------------------------------------------
\* observe_sentence on the single state, with the next sentence of the collection
ObserveInOrder ==
  /\ gs_calls < Len(od_batch)
  /\ LET pats == od_batch[gs_calls + 1]
     IN /\ patterns' = GrammarState_observe_sentence(patterns, pats)
        /\ gs_occ' = [k \in Keys |->
             gs_occ[k] + Cardinality({ i \in DOMAIN pats : pats[i].key = k })]
        /\ gs_sent' = [k \in Keys |->
             gs_sent[k] + (IF \E i \in DOMAIN pats : pats[i].key = k THEN 1 ELSE 0)]
        /\ gs_real' = [k \in Keys |->
             gs_real[k] \cup { pats[i].realization :
                                i \in { j \in DOMAIN pats : pats[j].key = k
                                                            /\ pats[j].realization # "" } }]
  /\ gs_calls' = gs_calls + 1
  /\ gs_query' = NoQuery
  /\ UNCHANGED << min_count_seen, min_distinct_sentence_count, orderVars, notOrder >>

\* observe_sentence on one of the two other states, with any sentence of the
\* collection that neither has observed yet
WorkerObserves ==
  /\ \E i \in DOMAIN od_batch \ od_done, w \in { 1, 2 } :
       /\ od_workers' = [od_workers EXCEPT ![w] = GrammarState_observe_sentence(@, od_batch[i])]
       /\ od_done' = od_done \cup { i }
  /\ UNCHANGED << od_batch, gsVars, notOrder >>

NextOrder ==
  \/ ObserveInOrder
  \/ WorkerObserves

InitSpecOrder ==
  InitOrder /\ IdleGS /\ IdlePrior /\ IdleKey /\ IdleExtract /\ IdleAnchors /\ IdleLoad

SpecOrder == InitSpecOrder /\ [][NextOrder]_vars

\* ---- C26
\* the entry of a key in a patterns dict (a fresh PatternStats when it has none)
EntryOf(p, k) == IF k \in DOMAIN p THEN p[k] ELSE NewPatternStats

\* two partial states summed: counts added, realization sets united
SumOfPartials(a, b) ==
  [k \in DOMAIN a \cup DOMAIN b |->
     [count_seen |-> EntryOf(a, k).count_seen + EntryOf(b, k).count_seen,
      distinct_sentence_count |-> EntryOf(a, k).distinct_sentence_count
                                    + EntryOf(b, k).distinct_sentence_count,
      realizations |-> EntryOf(a, k).realizations \cup EntryOf(b, k).realizations]]

\* C26: aggregation is order-independent.  When the single state has observed
\* the first n sentences of a collection in list order and the two other
\* states have between them observed the same n sentences, shared in any way
\* and taken in any order, the sum of the two partial states is the single
\* state: the same keys, and for every key the same count_seen,
\* distinct_sentence_count, realization set and emergence flag; and when one
\* of the two observed them all, its state is the single state.
C26_OrderIndependent ==
  od_done = 1 .. gs_calls =>
    LET merged == SumOfPartials(od_workers[1], od_workers[2])
    IN /\ DOMAIN merged = DOMAIN patterns
       /\ \A k \in Keys :
            /\ EntryOf(merged, k).count_seen = count_seen(k)
            /\ EntryOf(merged, k).distinct_sentence_count = distinct_sentence_count(k)
            /\ EntryOf(merged, k).realizations = stored_realizations(k)
            /\ GrammarState_is_emerged(merged, k, min_count_seen, min_distinct_sentence_count)
                 <=> is_emerged(k)
       /\ od_workers[2] = << >> => od_workers[1] = patterns
       /\ od_workers[1] = << >> => od_workers[2] = patterns

\* C26 witness: three sentences, the last of them observed by the first
\* worker and the first two by the second; k1 is emerged in the sum, in
\* neither part.
C26_Witness ==
  /\ Len(od_batch) = 3
  /\ gs_calls = 3
  /\ od_done = { 1, 2, 3 }
  /\ od_workers[1] = GrammarState_observe_sentence(<< >>, od_batch[3])
  /\ od_workers[1] # << >>
  /\ od_batch[1] # od_batch[3]
  /\ is_emerged("k1")
  /\ ~ GrammarState_is_emerged(od_workers[1], "k1", min_count_seen, min_distinct_sentence_count)
  /\ ~ GrammarState_is_emerged(od_workers[2], "k1", min_count_seen, min_distinct_sentence_count)
\* ---- C29
\* the number of tokens between the anchor occurrence at i and the tail of
\* its span: up to the nearest later anchor, or to the end of the search
InteriorCount(i, tail) ==
  IF tail # END THEN NearestLaterAnchor(i) - i - 1
  ELSE Min(ex_call.max_gap, Len(ex_call.tokens) - i - 1)

\* span and sig are the anch_span and the span_sig pattern of the anchor
\* occurrence at i
SameSpan(span, sig, i) ==
  \E tail \in ex_call.anchors \cup { END }, b \in GapBuckets, kX \in 0 .. Len(ex_call.tokens) :
    /\ span.pattern_key = key_anchor_span(Tok(ex_call.tokens, i), tail, b)
    /\ sig.pattern_key = key_span_signature(Tok(ex_call.tokens, i), tail, b, 0, kX)
    /\ kX = InteriorCount(i, tail)
    /\ bucket_gap(kX) = b
    /\ sig.realization = span.realization

\* C29: span-signature extraction returns one span_sig pattern per anchor
\* occurrence, with the head, the tail and the gap bucket of the anch_span
\* pattern of the same occurrence; its kA is 0 and its kX is the number of
\* interior tokens, whose bucket is the key's gap.
C29_SpanSignatureMatchesSpan ==
  /\ Returned("_span_signature_patterns") =>
       LET spans == anchor_span_patterns(ex_call.tokens, ex_call.anchors, ex_call.max_gap)
       IN /\ Len(extracted) = Cardinality(AnchorPositions)
          /\ Len(spans) = Len(extracted)
          /\ \A k \in DOMAIN extracted : SameSpan(spans[k], extracted[k], NthAnchorPosition(k))
  /\ (Returned("extract_patterns_from_tokens")
        /\ { "add_anchor_spans", "add_span_signatures" } \subseteq ex_call.flags) =>
       LET spans == OfFamily(<< "a", "n", "c", "h", "_", "s", "p", "a", "n" >>)
           sigs == OfFamily(<< "s", "p", "a", "n", "_", "s", "i", "g" >>)
       IN /\ Len(sigs) = Cardinality(AnchorPositions)
          /\ Len(spans) = Len(sigs)
          /\ \A k \in DOMAIN sigs : SameSpan(spans[k], sigs[k], NthAnchorPosition(k))

\* C29 witness: in [把, 我, 我, 了] with anchors {把, 了} the span of 把 has two
\* interior tokens and the tail 了; the span of 了 ends the sentence.
C29_Witness ==
  /\ Returned("_span_signature_patterns")
  /\ ex_call.tokens = << Ba, Wo, Wo, Le >>
  /\ ex_call.anchors = { Ba, Le }
  /\ ex_call.max_gap = 3
  /\ Len(extracted) = 2
  /\ extracted[1].pattern_key = key_span_signature(Ba, Le, << "2", "-", "3" >>, 0, 2)
  /\ extracted[2].pattern_key = key_span_signature(Le, END, << "0" >>, 0, 0)
\* ---- C30
\* the store agrees with itself: the distinct_realization_count of every key
\* is the number of its realization rows, and only keys with a stats row have
\* realization rows
SampleCountsAgree(store) ==
  \A k \in Keys :
    /\ distinct_realization_count(store, k) = Cardinality(realization_rows(store, k))
    /\ realization_rows(store, k) # {} => store.stats[k].present
    /\ cap_realizations_per_pattern <= 0 =>
         /\ distinct_realization_count(store, k) = 0
         /\ realization_rows(store, k) = {}

\* C30: in a build that starts from an empty store, what is committed at
\* each commit boundary has for every key a distinct_realization_count equal
\* to the number of realization rows of the key (0 for every key when the cap
\* is <= 0), and no realization row of a key without stats row; the same
\* holds of the working store from a flush to the commit that follows it.
C30_RealizationCountEqualsRows ==
  /\ SampleCountsAgree(committed)
  /\ pc \in { "commit", "p_global", "final_commit", "done" } => SampleCountsAgree(db)

\* C30 witness: a finished build that committed after every sentence, with a
\* key that has two realization rows and the count 2.
C30_Witness ==
  /\ pc = "done"
  /\ kept_lines >= 2
  /\ commit_every = 1
  /\ \E k \in Keys :
       /\ Cardinality(realization_rows(committed, k)) = 2
       /\ distinct_realization_count(committed, k) = 2
       /\ count_occurrences(committed, k) >= 2

====
